---- MODULE Spec2Model ----
(***************************************************************************)
(* Verification model of the InferMCPServer execution core:                *)
(*   - ConcurrencyLimiter        (src/src/utils/concurrency.ts)            *)
(*   - executeSshCommand         (src/src/services/sshService.ts)          *)
(*   - executeDatabaseQuery      (src/unnamed/part_007)                    *)
(* Every handler of the event-driven program is one action: JavaScript     *)
(* runs a callback to completion, so the code between two suspension       *)
(* points is atomic.                                                       *)
(***************************************************************************)
EXTENDS Integers, Sequences, FiniteSets, TLC

(***************************************************************************)
(* Bounds of the model.                                                    *)
(***************************************************************************)
\* number of callers of the bare limiter
MaxReqs == 4
\* largest limit value a caller passes to acquire
MaxLimit == 2

\* number of concurrent calls of one executor
MaxCalls == 2
\* teardown and settle counters saturate here ("more than once")
MaxCount == 2
\* policy.maxOutputBytes of the profiles, and the longest chunk is one byte more
MaxOutputBytes == 1
\* maxRows of the database profiles, and the largest result has one row more
MaxRows == 1
\* largest maxExecutionMs of a profile
MaxExecutionMs == 2
\* longest query text handed to validateQuerySafety on its own
MaxLen == 6
\* largest ceiling of a profile where the limits, the TruncatingBuffer and the
\* row cap are exercised on their own; overrides, chunks and results go one beyond
MaxCeiling == 2

Reqs == 1..MaxReqs
Calls == 1..MaxCalls
Keys == {"a", "b"}
\* maxConcurrent is a positive integer (schema.ts: z.number().int().positive())
Limits == 1..MaxLimit
\* "no waiter": request and call identifiers start at 1
NoWaiter == 0

(***************************************************************************)
(* State.                                                                  *)
(***************************************************************************)
VARIABLES
  \* ConcurrencyLimiter.states of the limiter under test: a map key -> ProfileState
  states,
  \* per caller of the bare limiter: where its acquire() promise stands
  \* "idle" | "queued" | "granted" | "AbortError"
  rStatus,
  \* the key and the AbortSignal the caller passed to acquire
  \* (a caller without a signal behaves as one whose signal never fires)
  rKey, rSig,
  \* the `released` flag of the caller's release closure
  rReleased,
  \* per key, maxConcurrent of the profile in the cached configuration snapshot:
  \* the limit every caller reads and passes to acquire (the two keys are
  \* interchangeable, so only snapshots with policy.a <= policy.b are started from)
  policy,
  \* per key, how many ProfileState records were created so far (history)
  kCreated,
  \* the generation of the key's record the caller's acquire ran on (history)
  rGen,
  \* parity of the number of calls made of an already used release closure
  \* (history: it makes such a call, which changes nothing else, a visible step)
  repeats,
  \* whether one of them was made while a waiter was queued for the key and after
  \* the key's record had been discarded and created again (history)
  staleRepeat,
  \* whether the caller's acquire returned a pending promise (history)
  rWasQueued,
  \* callers in the order their acquire() ran (history)
  arrived,
  \* the cached configuration snapshot getConfig() returns
  config,
  \* which executor the calls of this run go to: the two executors share no
  \* state (each has its own limiter, clients and buffers)
  executor,
  \* the ConcurrencyLimiter.states of sshService's module-level limiter
  sshConcurrency,
  \* per call of executeSshCommand: its locals, its connection and its history
  ssh,
  \* the ConcurrencyLimiter.states of the database service's module-level limiter
  dbConcurrency,
  \* per call of executeDatabaseQuery: its locals, its client and its history
  db,
  \* the messages the database service has written with logger.debug
  logger,
  \* a query text handed to validateQuerySafety on its own, and what became of it
  validated,
  \* a call's options and its profile's ceilings, and the limits and the rows
  \* computed from them
  limits,
  \* a TruncatingBuffer on its own: chunks, byteLength, truncated
  buffer,
  \* the chunks pushed to it so far (history)
  pushed,
  \* one call of runTrainingJob: its input, its loop position, its task reports
  \* and what it returned or threw
  job

limVars == <<states, rStatus, rKey, rSig, rReleased, policy, kCreated, rGen, repeats,
            staleRepeat, rWasQueued, arrived>>

cfgVars == <<config, executor>>

sshVars == <<sshConcurrency, ssh>>

dbVars == <<dbConcurrency, db, logger>>

execVars == <<cfgVars, sshVars, dbVars>>

unitVars == <<validated, limits, buffer, pushed, job>>

vars == <<limVars, execVars, unitVars>>

(***************************************************************************)
(* ConcurrencyLimiter as operators on a states map, so that the bare        *)
(* limiter and both executors run the same code.                           *)
(***************************************************************************)
EmptyStates == [k \in {} |-> [active |-> 0, limit |-> 1, queue |-> <<>>]]

HasState(st, key) == key \in DOMAIN st

PutState(st, key, rec) ==
  [k \in (DOMAIN st) \cup {key} |-> IF k = key THEN rec ELSE st[k]]

DeleteState(st, key) == [k \in (DOMAIN st) \ {key} |-> st[k]]

\* Math.max(1, limit)
normalizedLimit(limit) == IF limit > 1 THEN limit ELSE 1

\* acquire, first part: look the state up, create it or update its limit
acquireEnter(st, key, limit) ==
  IF ~HasState(st, key)
    THEN PutState(st, key, [active |-> 0, limit |-> normalizedLimit(limit), queue |-> <<>>])
    ELSE [st EXCEPT ![key].limit = normalizedLimit(limit)]

hasCapacityOffByOne(state) == state.active <= state.limit

\* if (state.active < state.limit)
hasCapacity(state) == state.active < state.limit

\* indexOf + splice: the queue without the pending request of waiter w
spliceNothing(queue, w) == queue

RECURSIVE splice(_, _)
splice(queue, w) ==
  IF queue = <<>> THEN <<>>
  ELSE IF Head(queue) = w THEN Tail(queue)
  ELSE <<Head(queue)>> \o splice(Tail(queue), w)

\* the abort listener of a queued waiter: drop it from the queue (the reject is
\* the caller-side effect of the action that uses this)
abortListenerKeepsWaiter(st, key, w) == st

abortListener(st, key, w) == [st EXCEPT ![key].queue = splice(@, w)]

\* acquire(key, limit, signal) for waiter w whose signal is in state sig:
\* the new states map and what the returned promise does right away
acquire(st, key, limit, w, sig) ==
  LET s1 == acquireEnter(st, key, limit) IN
  IF hasCapacity(s1[key])
    THEN [st |-> [s1 EXCEPT ![key].active = @ + 1], outcome |-> "granted"]
    ELSE LET s2 == [s1 EXCEPT ![key].queue = Append(@, w)] IN
         IF sig = "aborted"
           THEN [st |-> abortListener(s2, key, w), outcome |-> "AbortError"]
           ELSE [st |-> s2, outcome |-> "queued"]

shiftLast(queue) ==
  [next |-> queue[Len(queue)], rest |-> SubSeq(queue, 1, Len(queue) - 1)]

\* state.queue.shift() on a non-empty queue
shift(queue) == [next |-> Head(queue), rest |-> Tail(queue)]

releaseKeepsState(st, key) ==
  IF ~HasState(st, key) THEN [st |-> st, next |-> NoWaiter]
  ELSE LET a == IF st[key].active > 0 THEN st[key].active - 1 ELSE st[key].active
           q == st[key].queue
       IN IF q # <<>>
            THEN [st |-> [st EXCEPT ![key].active = a + 1, ![key].queue = shift(q).rest],
                  next |-> shift(q).next]
            ELSE [st |-> [st EXCEPT ![key].active = a], next |-> NoWaiter]

\* private release(key): the new states map and the waiter whose pending.resolve
\* ran (which adds one to active), NoWaiter if none
release(st, key) ==
  IF ~HasState(st, key) THEN [st |-> st, next |-> NoWaiter]
  ELSE LET a == IF st[key].active > 0 THEN st[key].active - 1 ELSE st[key].active
           q == st[key].queue
       IN IF q # <<>>
            THEN [st |-> [st EXCEPT ![key].active = a + 1, ![key].queue = shift(q).rest],
                  next |-> shift(q).next]
            ELSE IF a = 0
              THEN [st |-> DeleteState(st, key), next |-> NoWaiter]
              ELSE [st |-> [st EXCEPT ![key].active = a], next |-> NoWaiter]

\* active count of a key, 0 when the key has no state record
ActiveOf(st, key) == IF HasState(st, key) THEN st[key].active ELSE 0
QueueOf(st, key) == IF HasState(st, key) THEN st[key].queue ELSE <<>>

(***************************************************************************)
(* The bare limiter driven by MaxReqs callers.                             *)
(***************************************************************************)
LimInit ==
  /\ states = EmptyStates
  /\ rStatus = [r \in Reqs |-> "idle"]
  /\ rKey = [r \in Reqs |-> "a"]
  /\ rSig = [r \in Reqs |-> "live"]
  /\ rReleased = [r \in Reqs |-> FALSE]
  /\ policy \in {p \in [Keys -> Limits] : p["a"] <= p["b"]}
  /\ kCreated = [k \in Keys |-> 0]
  /\ rGen = [r \in Reqs |-> 0]
  /\ repeats = FALSE
  /\ staleRepeat = FALSE
  /\ rWasQueued = [r \in Reqs |-> FALSE]
  /\ arrived = <<>>

\* a caller runs acquire(key, policy.maxConcurrent, signal); callers arrive in
\* index order
Acquire(r, key, sig) ==
  /\ rStatus[r] = "idle"
  /\ Len(arrived) = r - 1
  /\ LET res == acquire(states, key, policy[key], r, sig) IN
     /\ states' = res.st
     /\ rStatus' = [rStatus EXCEPT ![r] = res.outcome]
     /\ rWasQueued' = [rWasQueued EXCEPT ![r] = res.outcome = "queued"]
  /\ rKey' = [rKey EXCEPT ![r] = key]
  /\ rSig' = [rSig EXCEPT ![r] = sig]
  /\ kCreated' = [kCreated EXCEPT ![key] = IF HasState(states, key) THEN @ ELSE @ + 1]
  /\ rGen' = [rGen EXCEPT ![r] = kCreated'[key]]
  /\ arrived' = Append(arrived, r)
  /\ UNCHANGED <<rReleased, policy, repeats, staleRepeat, execVars, unitVars>>

\* the caller's AbortSignal fires; the limiter listens only while the caller is queued
Abort(r) ==
  /\ rSig[r] = "live"
  /\ rStatus[r] = "queued" \/ (rStatus[r] = "granted" /\ ~rReleased[r])
  /\ rSig' = [rSig EXCEPT ![r] = "aborted"]
  /\ IF rStatus[r] = "queued"
       THEN /\ states' = abortListener(states, rKey[r], r)
            /\ rStatus' = [rStatus EXCEPT ![r] = "AbortError"]
       ELSE UNCHANGED <<states, rStatus>>
  /\ UNCHANGED <<rKey, rReleased, policy, kCreated, rGen, repeats, staleRepeat,
               rWasQueued, arrived, execVars, unitVars>>

ReleaseEffectNoHandOver(key) ==
  LET a == IF states[key].active > 0 THEN states[key].active - 1 ELSE states[key].active
  IN /\ states' = IF a = 0 /\ states[key].queue = <<>>
                     THEN DeleteState(states, key)
                     ELSE [states EXCEPT ![key].active = a]
     /\ rStatus' = rStatus

\* what the limiter and the waiters see of one run of this.release(key)
ReleaseEffect(key) ==
  LET res == release(states, key) IN
  /\ states' = res.st
  /\ rStatus' = IF res.next = NoWaiter THEN rStatus
                ELSE [rStatus EXCEPT ![res.next] = "granted"]

\* history of the calls of an already used closure
LogRepeat(r) ==
  IF rReleased[r]
    THEN /\ repeats' = ~repeats
         /\ staleRepeat' = (staleRepeat \/ (/\ QueueOf(states, rKey[r]) # <<>>
                                             /\ kCreated[rKey[r]] > rGen[r]))
    ELSE UNCHANGED <<repeats, staleRepeat>>

ReleaseCallNoGuard(r) ==
  /\ rStatus[r] = "granted"
  /\ LogRepeat(r)
  /\ rReleased' = [rReleased EXCEPT ![r] = TRUE]
  /\ ReleaseEffect(rKey[r])
  /\ UNCHANGED <<rKey, rSig, policy, kCreated, rGen, rWasQueued, arrived, execVars, unitVars>>

\* the caller invokes the release closure it was given (any number of times):
\* if (released) return; released = true; this.release(key)
ReleaseCall(r) ==
  /\ rStatus[r] = "granted"
  /\ LogRepeat(r)
  /\ IF rReleased[r]
       THEN UNCHANGED <<states, rStatus, rReleased>>
       ELSE /\ rReleased' = [rReleased EXCEPT ![r] = TRUE]
            /\ ReleaseEffect(rKey[r])
  /\ UNCHANGED <<rKey, rSig, policy, kCreated, rGen, rWasQueued, arrived, execVars, unitVars>>

LimNext ==
  \/ \E r \in Reqs, key \in Keys, sig \in {"live", "aborted"} : Acquire(r, key, sig)
  \/ \E r \in Reqs : Abort(r)
  \/ \E r \in Reqs : ReleaseCall(r)

(***************************************************************************)
(* Configuration snapshots (config/index: resolveConfig).  A run addresses *)
(* one profile of the snapshot; commands are word sequences and an         *)
(* allowlist pattern "^word" is kept as its word.                          *)
(***************************************************************************)
SafeCommand == <<"safe", "command">>
RmCommand == <<"rm", "-rf", "/">>
Commands == {SafeCommand, RmCommand}

\* regex.test(command) for the anchored patterns of the repository's configurations
regexTest(pattern, command) == Len(command) > 0 /\ command[1] = pattern

TrainingProfile ==
  [host |-> "cluster.example.com", password |-> TRUE, privateKey |-> FALSE,
   allowedCommandPatterns |-> {"safe"}, maxConcurrent |-> 1]

LocalTestProfile ==
  [host |-> "127.0.0.1", password |-> TRUE, privateKey |-> FALSE,
   allowedCommandPatterns |-> {"echo", "python", "ls"}, maxConcurrent |-> 1]

\* process.env.INFER_MCP_MODE when the configuration is resolved
Modes == {"unset", "production"}

\* isLocalTestMode: (process.env.INFER_MCP_MODE ?? "local").toLowerCase() !== "production"
isLocalTestMode(mode) == (IF mode = "unset" THEN "local" ELSE mode) # "production"

\* resolveConfig for a source with the one profile the run addresses
resolveConfig(mode, name, profile) ==
  [mode |-> mode, localTestMode |-> isLocalTestMode(mode), name |-> name,
   profile |-> profile]

Snapshots ==
  {resolveConfig(m, "training", TrainingProfile) : m \in Modes}
  \cup {resolveConfig(m, "local-test", LocalTestProfile) : m \in Modes}
  \cup {resolveConfig("production", "training",
                      [TrainingProfile EXCEPT !.password = FALSE, !.privateKey = TRUE,
                                              !.allowedCommandPatterns = {}]),
        resolveConfig("production", "training",
                      [TrainingProfile EXCEPT !.password = FALSE])}

\* the profile names the calls of a run pass: the snapshot's and one it lacks
ProfileArgs == {config.name, "unknown"}

(***************************************************************************)
(* executeSshCommand.  The handlers of a call write that call's record    *)
(* only, so the events that reach a connection after its call has settled  *)
(* are taken before the call's finally block and not interleaved with the  *)
(* calls that follow.  When a call returns its frame goes: the record      *)
(* keeps the call's arguments, what it delivered and what it did to the    *)
(* limiter and the network.                                                *)
(***************************************************************************)
Min(a, b) == IF a < b THEN a ELSE b

\* an optional number: undefined or null is the empty tuple, n is <<n>>
Nullish == <<>>
Given(n) == <<n>>
\* value ?? fallback
Coalesce(value, fallback) == IF value = Nullish THEN fallback ELSE value[1]

SshIdle ==
  [fn |-> "idle", profile |-> "unknown", command |-> <<>>, sig |-> "none",
   conn |-> "none", errored |-> FALSE, timer |-> "unset", listener |-> FALSE,
   aborted |-> FALSE, settled |-> FALSE, outcome |-> "none", result |-> "none",
   released |-> FALSE, progress |-> -1,
   stdout |-> [byteLength |-> 0, truncated |-> FALSE],
   stderr |-> [byteLength |-> 0, truncated |-> FALSE],
   settleCalls |-> 0, ends |-> 0, destroys |-> 0, connects |-> 0, releaseCalls |-> 0,
   hadSlot |-> FALSE, abortAt |-> "none"]

\* where a call stands, as the history fields record it
Stage(s) ==
  IF s.fn \in {"idle", "queued", "granted", "done"} THEN s.fn
  ELSE IF s.settled THEN "settled" ELSE s.conn

\* createTruncatingBuffer(limit).push(chunk), on the buffer's byteLength and truncated
push(buf, limit, chunkLength) ==
  IF buf.truncated \/ limit <= 0
    THEN [buf EXCEPT !.truncated = IF limit <= 0 THEN TRUE ELSE @]
  ELSE LET available == limit - buf.byteLength IN
    IF available <= 0 THEN [buf EXCEPT !.truncated = TRUE]
    ELSE IF chunkLength > available
      THEN [byteLength |-> buf.byteLength + available, truncated |-> TRUE]
      ELSE [buf EXCEPT !.byteLength = @ + chunkLength]

\* createTruncatingBuffer(limit): the closure's limit, chunks, byteLength, truncated
createTruncatingBuffer(limit) ==
  [limit |-> limit, chunks |-> <<>>, byteLength |-> 0, truncated |-> FALSE]

\* variant of pushChunk: the chunk that does not fit is stored whole
pushChunkWhole(buf, chunk) ==
  IF buf.truncated \/ buf.limit <= 0
    THEN [buf EXCEPT !.truncated = IF buf.limit <= 0 THEN TRUE ELSE @]
  ELSE [buf EXCEPT !.chunks = Append(@, chunk),
                   !.byteLength = @ + Len(chunk),
                   !.truncated = Len(chunk) > buf.limit - buf.byteLength]

\* push(chunk) of the buffer, with the bytes it stores
pushChunk(buf, chunk) ==
  IF buf.truncated \/ buf.limit <= 0
    THEN [buf EXCEPT !.truncated = IF buf.limit <= 0 THEN TRUE ELSE @]
  ELSE LET available == buf.limit - buf.byteLength IN
    IF available <= 0 THEN [buf EXCEPT !.truncated = TRUE]
    ELSE IF Len(chunk) > available
      THEN [buf EXCEPT !.chunks = Append(@, SubSeq(chunk, 1, available)),
                       !.byteLength = @ + available,
                       !.truncated = TRUE]
      ELSE [buf EXCEPT !.chunks = Append(@, chunk),
                       !.byteLength = @ + Len(chunk)]

\* Buffer.concat(chunks, byteLength): the chunks in a row, cut or padded with
\* zero bytes to byteLength
RECURSIVE concat(_)
concat(chunks) == IF chunks = <<>> THEN <<>> ELSE Head(chunks) \o concat(Tail(chunks))

\* toString() of the buffer, as the bytes of the string
toString(buf) ==
  IF Len(buf.chunks) = 0 THEN <<>>
  ELSE LET all == concat(buf.chunks) IN
       [i \in 1..buf.byteLength |-> IF i <= Len(all) THEN all[i] ELSE 0]

\* const timeoutLimit = Math.min(options.timeoutMs ?? maxExecutionMs, maxExecutionMs)
timeoutLimit(override, maxExecutionMs) ==
  Min(Coalesce(override, maxExecutionMs), maxExecutionMs)

\* const outputLimit = Math.min(options.maxOutputBytes ?? maxOutputBytes, maxOutputBytes)
outputLimit(override, maxOutputBytes) ==
  Min(Coalesce(override, maxOutputBytes), maxOutputBytes)

\* the call returns or throws `result`
returned(s, result) ==
  [SshIdle EXCEPT !.fn = "done", !.profile = s.profile, !.command = s.command,
                  !.result = result,
                  !.released = s.released, !.releaseCalls = s.releaseCalls,
                  !.hadSlot = s.hadSlot, !.connects = s.connects]

\* ensureCommandAllowed: TRUE when it returns, FALSE when it throws
ensureCommandAllowed(command, patterns) ==
  \/ patterns = {}
  \/ \E regex \in patterns : regexTest(regex, command)

\* config.localTestMode && (profileName === "local-test" || host is loopback)
skipAuthorization(cfg, profileName, profile) ==
  cfg.localTestMode /\ (\/ profileName = "local-test"
                        \/ profile.host = "127.0.0.1"
                        \/ profile.host = "localhost")

\* options.onProgress?.({ progress })  (tenths)
onProgress(s, value) == [s EXCEPT !.progress = value]

cleanupWithoutEnd(s) ==
  [s EXCEPT !.timer = IF @ = "armed" THEN "cleared" ELSE @,
            !.listener = FALSE]

\* cleanup(): clear the timer, drop the abort listener, sshClient.end()
cleanup(s) ==
  [s EXCEPT !.timer = IF @ = "armed" THEN "cleared" ELSE @,
            !.listener = FALSE,
            !.ends = Min(@ + 1, MaxCount)]

finalizeNoGuard(s, outcome) ==
  [s EXCEPT !.settled = TRUE,
            !.settleCalls = Min(@ + 1, MaxCount),
            !.outcome = IF @ = "none" THEN outcome ELSE @]

\* finalize(executor): runs resolve/reject once, guarded by `settled`
finalize(s, outcome) ==
  IF s.settled THEN s
  ELSE [s EXCEPT !.settled = TRUE,
                 !.settleCalls = Min(@ + 1, MaxCount),
                 !.outcome = IF @ = "none" THEN outcome ELSE @]

\* rejectWithError(error)
rejectWithError(s, error) == finalize(cleanup(s), error)

onTimeoutNoReject(s) == onProgress([s EXCEPT !.timer = "fired"], 10)

\* onTimeout(): the timer callback
onTimeout(s) ==
  rejectWithError(onProgress([s EXCEPT !.timer = "fired"], 10), "Timeout")

rejectedDueToAbortNoTeardown(s) ==
  finalize(onProgress([s EXCEPT !.aborted = TRUE], 10), "AbortError")

\* rejectedDueToAbort(): aborted = true, progress, sshClient.destroy(), reject
rejectedDueToAbort(s) ==
  rejectWithError(onProgress([s EXCEPT !.aborted = TRUE,
                                       !.destroys = Min(@ + 1, MaxCount)], 10),
                  "AbortError")

\* the release closure acquire() returned, as called by a call record
releaseSlot(s) ==
  [s EXCEPT !.released = TRUE, !.releaseCalls = Min(@ + 1, MaxCount)]

\* the limiter after the closure ran: this.release(key) unless already released
limiterAfterRelease(st, s) == IF s.released THEN [st |-> st, next |-> NoWaiter]
                              ELSE release(st, s.profile)

\* executeSshCommand up to `await sshConcurrency.acquire(...)`; options.signal
\* is live or already aborted (a call without a signal behaves as one whose
\* signal never fires)
SshStart(c, profileName, command, sig) ==
  /\ executor = "ssh"
  /\ ssh[c].fn = "idle"
  /\ \A d \in Calls : d < c => ssh[d].fn # "idle"
  /\ LET s0 == [ssh[c] EXCEPT !.profile = profileName, !.command = command, !.sig = sig]
     IN
     IF profileName # config.name
       THEN /\ ssh' = [ssh EXCEPT ![c] = returned(s0, "NotFound")]
            /\ UNCHANGED sshConcurrency
     ELSE IF /\ ~skipAuthorization(config, profileName, config.profile)
             /\ ~ensureCommandAllowed(command, config.profile.allowedCommandPatterns)
       THEN /\ ssh' = [ssh EXCEPT ![c] = returned(s0, "PolicyViolation")]
            /\ UNCHANGED sshConcurrency
     ELSE LET res == acquire(sshConcurrency, profileName, config.profile.maxConcurrent,
                             c, sig)
              s1 == onProgress(s0, 0)
          IN /\ sshConcurrency' = res.st
             /\ ssh' = [ssh EXCEPT ![c] =
                  IF res.outcome = "granted" THEN [s1 EXCEPT !.fn = "granted", !.hadSlot = TRUE]
                  ELSE IF res.outcome = "queued" THEN [s1 EXCEPT !.fn = "queued"]
                  ELSE returned(s1, "AbortError")]
  /\ UNCHANGED <<cfgVars, dbVars, limVars, unitVars>>

\* the code after the await, up to the end of the Promise executor: auth
\* selection, the abort check, connect() and setTimeout()
SshConnect(c) ==
  /\ ssh[c].fn = "granted"
  /\ LET s == ssh[c] IN
     ssh' = [ssh EXCEPT ![c] =
       IF ~config.profile.privateKey /\ ~config.profile.password
         THEN returned(s, "MissingAuth")
       ELSE LET s1 == onProgress(s, 1) IN
         IF s1.sig = "aborted"
           THEN [rejectedDueToAbort(s1) EXCEPT !.fn = "awaiting"]
           ELSE [s1 EXCEPT !.fn = "awaiting",
                           !.listener = (s1.sig = "live"),
                           !.conn = "connecting",
                           !.connects = Min(@ + 1, MaxCount),
                           !.timer = "armed"]]
  /\ UNCHANGED <<cfgVars, sshConcurrency, dbVars, limVars, unitVars>>

\* sshClient "ready": exec the command unless aborted
SshReady(c) ==
  /\ ssh[c].fn = "awaiting"
  /\ ssh[c].conn = "connecting"
  /\ LET s == ssh[c] IN
     ssh' = [ssh EXCEPT ![c] =
       IF s.aborted
         THEN [rejectWithError(s, "AbortError") EXCEPT !.conn = "readyNoExec"]
         ELSE [onProgress(s, 4) EXCEPT !.conn = "ready"]]
  /\ UNCHANGED <<cfgVars, sshConcurrency, dbVars, limVars, unitVars>>

\* the callback of sshClient.exec: an error, or the stream whose handlers are set
SshExecCallback(c, ok) ==
  /\ ssh[c].fn = "awaiting"
  /\ ssh[c].conn = "ready"
  /\ LET s == ssh[c] IN
     ssh' = [ssh EXCEPT ![c] =
       IF ok THEN [s EXCEPT !.conn = "stream"]
       ELSE [rejectWithError(s, "TransportError") EXCEPT !.conn = "execFailed"]]
  /\ UNCHANGED <<cfgVars, sshConcurrency, dbVars, limVars, unitVars>>

\* stream "close": cleanup, build the result, progress 1, resolve
SshClose(c) ==
  /\ ssh[c].fn = "awaiting"
  /\ ssh[c].conn = "stream"
  /\ ssh' = [ssh EXCEPT ![c] =
       [finalize(onProgress(cleanup(ssh[c]), 10), "result") EXCEPT !.conn = "closed"]]
  /\ UNCHANGED <<cfgVars, sshConcurrency, dbVars, limVars, unitVars>>

\* stream "data" and stream.stderr "data".  The buffers are read by the close
\* handler only, whose result is dropped once the call has settled.
SshData(c, stderr, chunkLength) ==
  /\ ssh[c].fn = "awaiting"
  /\ ssh[c].conn = "stream"
  /\ ~ssh[c].settled
  /\ ssh' = [ssh EXCEPT ![c] =
       IF stderr THEN [ssh[c] EXCEPT !.stderr = push(@, MaxOutputBytes, chunkLength)]
       ELSE [ssh[c] EXCEPT !.stdout = push(@, MaxOutputBytes, chunkLength)]]
  /\ UNCHANGED <<cfgVars, sshConcurrency, dbVars, limVars, unitVars>>

\* sshClient "error" (at most one per connection)
SshError(c) ==
  /\ ssh[c].fn = "awaiting"
  /\ ssh[c].conn # "none"
  /\ ~ssh[c].errored
  /\ ssh' = [ssh EXCEPT ![c] =
       [rejectWithError(onProgress(ssh[c], 10), "TransportError") EXCEPT !.errored = TRUE]]
  /\ UNCHANGED <<cfgVars, sshConcurrency, dbVars, limVars, unitVars>>

SshTimeoutAlsoQueued(c) ==
  /\ ssh[c].timer = "armed" \/ ssh[c].fn = "queued"
  /\ IF ssh[c].fn = "queued"
       THEN /\ sshConcurrency' = abortListener(sshConcurrency, ssh[c].profile, c)
            /\ ssh' = [ssh EXCEPT ![c] = returned(ssh[c], "Timeout")]
       ELSE /\ ssh' = [ssh EXCEPT ![c] = onTimeout(ssh[c])]
            /\ UNCHANGED sshConcurrency
  /\ UNCHANGED <<cfgVars, dbVars, limVars, unitVars>>

\* the timer set by setTimeout(onTimeout, timeoutLimit) expires
SshTimeout(c) ==
  /\ ssh[c].timer = "armed"
  /\ ssh' = [ssh EXCEPT ![c] = onTimeout(ssh[c])]
  /\ UNCHANGED <<cfgVars, sshConcurrency, dbVars, limVars, unitVars>>

\* options.signal fires: the limiter's listener while queued, the executor's
\* listener while it is registered, nobody otherwise
SshAbort(c) ==
  /\ ssh[c].sig = "live"
  /\ ssh[c].fn \notin {"idle", "done"}
  /\ LET s == [ssh[c] EXCEPT !.sig = "aborted", !.abortAt = Stage(ssh[c])] IN
     IF s.fn = "queued"
       THEN /\ sshConcurrency' = abortListener(sshConcurrency, s.profile, c)
            /\ ssh' = [ssh EXCEPT ![c] =
                 [returned(s, "AbortError") EXCEPT !.abortAt = "queued"]]
       ELSE /\ ssh' = [ssh EXCEPT ![c] = IF s.listener THEN rejectedDueToAbort(s) ELSE s]
            /\ UNCHANGED sshConcurrency
  /\ UNCHANGED <<cfgVars, dbVars, limVars, unitVars>>

\* the inner promise settled: finally { release() } and the call returns or throws
SshFinally(c) ==
  /\ ssh[c].fn = "awaiting"
  /\ ssh[c].settled
  /\ LET s == ssh[c]
         res == limiterAfterRelease(sshConcurrency, s)
         s1 == returned(releaseSlot(s), s.outcome)
     IN /\ sshConcurrency' = res.st
        /\ ssh' = [w \in Calls |->
              IF w = c THEN s1
              ELSE IF w = res.next THEN [ssh[w] EXCEPT !.fn = "granted", !.hadSlot = TRUE]
              ELSE ssh[w]]
  /\ UNCHANGED <<cfgVars, dbVars, limVars, unitVars>>

SshNext ==
  \/ \E c \in Calls, n \in ProfileArgs, command \in Commands,
        sig \in {"live", "aborted"} : SshStart(c, n, command, sig)
  \/ \E c \in Calls : SshConnect(c)
  \/ \E c \in Calls : SshReady(c)
  \/ \E c \in Calls, ok \in BOOLEAN : SshExecCallback(c, ok)
  \/ \E c \in Calls : SshClose(c)
  \/ \E c \in Calls, stderr \in BOOLEAN, n \in 1..(MaxOutputBytes + 1) : SshData(c, stderr, n)
  \/ \E c \in Calls : SshError(c)
  \/ \E c \in Calls : SshTimeout(c)
  \/ \E c \in Calls : SshAbort(c)
  \/ \E c \in Calls : SshFinally(c)

(***************************************************************************)
(* executeDatabaseQuery.  Query texts are sequences of characters.         *)
(***************************************************************************)
SelectOne == <<"S", "E", "L", "E", "C", "T", " ", "1">>
SelectLowerSemi == <<" ", "s", "e", "l", "e", "c", "t", " ", "1", ";", " ">>
DropTable == <<"D", "R", "O", "P", " ", "t">>
SelectThenDrop == SelectOne \o <<";">> \o DropTable
SelectComment == SelectOne \o <<" ", "-", "-">>
Blank == <<" ", " ">>
Queries == {SelectOne, SelectLowerSemi, DropTable, SelectThenDrop, SelectComment, Blank}

isWhitespace(char) == char = " "

\* String.prototype.trim
RECURSIVE trimStart(_)
trimStart(str) ==
  IF str # <<>> /\ isWhitespace(Head(str)) THEN trimStart(Tail(str)) ELSE str

RECURSIVE trimEnd(_)
trimEnd(str) ==
  IF str # <<>> /\ isWhitespace(str[Len(str)])
    THEN trimEnd(SubSeq(str, 1, Len(str) - 1)) ELSE str

trim(str) == trimEnd(trimStart(str))

\* the loop of validateQuerySafety from position i (positions count from 1
\* and semicolonIndex 0 is null) and the check that follows it
RECURSIVE scanQuery(_, _, _, _, _)
scanQuery(trimmed, i, inSingleQuote, inDoubleQuote, semicolonIndex) ==
  IF i > Len(trimmed)
    THEN IF /\ semicolonIndex # 0
            /\ trim(SubSeq(trimmed, semicolonIndex + 1, Len(trimmed))) # <<>>
           THEN "Query must not contain multiple statements"
           ELSE "ok"
  ELSE LET char == trimmed[i]
           prev == IF i > 1 THEN trimmed[i - 1] ELSE "undefined"
           next == IF i < Len(trimmed) THEN trimmed[i + 1] ELSE "undefined"
           isEscaped == prev = "\\"
       IN
       IF ~isEscaped /\ char = "'" /\ ~inDoubleQuote
         THEN scanQuery(trimmed, i + 1, ~inSingleQuote, inDoubleQuote, semicolonIndex)
       ELSE IF ~isEscaped /\ char = "\"" /\ ~inSingleQuote
         THEN scanQuery(trimmed, i + 1, inSingleQuote, ~inDoubleQuote, semicolonIndex)
       ELSE IF inSingleQuote \/ inDoubleQuote
         THEN scanQuery(trimmed, i + 1, inSingleQuote, inDoubleQuote, semicolonIndex)
       ELSE IF char = "-" /\ next = "-" THEN "Inline SQL comments are not allowed"
       ELSE IF char = "/" /\ next = "*" THEN "Block SQL comments are not allowed"
       ELSE IF char = ";"
         THEN IF semicolonIndex # 0 THEN "Query must be a single statement"
              ELSE scanQuery(trimmed, i + 1, inSingleQuote, inDoubleQuote, i)
       ELSE scanQuery(trimmed, i + 1, inSingleQuote, inDoubleQuote, semicolonIndex)

\* validateQuerySafety: "ok" when it returns, the message of the Error it throws otherwise
validateQuerySafety(query) ==
  IF trim(query) = <<>> THEN "Query cannot be empty"
  ELSE scanQuery(trim(query), 1, FALSE, FALSE, 0)

\* upper case of the letters that occur in the queries
toUpper(char) ==
  CASE char = "s" -> "S" [] char = "e" -> "E" [] char = "l" -> "L"
    [] char = "c" -> "C" [] char = "t" -> "T" [] OTHER -> char

\* new RegExp("^\\s*" + word, "i").test(query)
statementTest(word, query) ==
  LET rest == trimStart(query) IN
  /\ Len(rest) >= Len(word)
  /\ \A i \in 1..Len(word) : toUpper(rest[i]) = word[i]

\* ensureQueryAllowed: TRUE when it returns, FALSE when it throws
ensureQueryAllowed(query, patterns) ==
  \/ patterns = {}
  \/ \E regex \in patterns : statementTest(regex, query)

\* options.timeoutMs ?? profile.maxExecutionMs, capped by the profile
timeoutMs(override, maxExecutionMs) ==
  Min(Coalesce(override, maxExecutionMs), maxExecutionMs)

\* applyTimeout: the statement it sends
applyTimeout(ms) == <<"SET statement_timeout", ms>>

\* const rowLimit = Math.min(options.rowLimit ?? profile.maxRows, profile.maxRows)
rowLimit(override, maxRows) ==
  Min(Coalesce(override, maxRows), maxRows)

\* variant of slice: one row beyond end is kept
sliceOneMore(rows, end) ==
  SubSeq(rows, 1, Min(end + 1, Len(rows)))

\* Array.prototype.slice(0, end): a negative end counts from the end of the array
slice(rows, end) ==
  SubSeq(rows, 1, IF end < 0 THEN (IF Len(rows) + end < 0 THEN 0 ELSE Len(rows) + end)
                  ELSE Min(end, Len(rows)))

\* the rows a server sends, in its order
ServerRows(n) == [i \in 1..n |-> i]

\* rows, truncated and rowCount of the value executeDatabaseQuery returns
\* (result.rowCount is a number or null)
queryResult(result, limit) ==
  LET rows == slice(result.rows, limit) IN
  [rows |-> rows,
   truncated |-> Len(result.rows) > Len(rows),
   rowCount |-> Coalesce(result.rowCount, Len(rows))]

AnalyticsProfile ==
  [allowedStatementPatterns |-> {<<"S", "E", "L", "E", "C", "T">>},
   maxRows |-> MaxRows, maxExecutionMs |-> MaxExecutionMs, maxConcurrent |-> 1]

DbSnapshots ==
  {resolveConfig("unset", "analytics", AnalyticsProfile),
   resolveConfig("production", "analytics",
                 [AnalyticsProfile EXCEPT !.allowedStatementPatterns = {}])}

DbIdle ==
  [fn |-> "idle", profile |-> "unknown", query |-> <<>>, sig |-> "none",
   aborted |-> FALSE, listener |-> FALSE, outcome |-> "none", result |-> "none",
   rows |-> 0, truncated |-> FALSE, released |-> FALSE, progress |-> -1,
   connects |-> 0, connected |-> FALSE, issued |-> <<>>, timeoutSet |-> FALSE,
   ends |-> 0, destroys |-> 0, releaseCalls |-> 0,
   hadSlot |-> FALSE, abortAt |-> "none"]

\* the call returns or throws `result`: its frame goes, the record keeps the
\* call's arguments, what it delivered and what it did to the limiter and the network
dbReturned(s, result) ==
  [DbIdle EXCEPT !.fn = "done", !.profile = s.profile, !.query = s.query,
                 !.result = result, !.rows = s.rows, !.truncated = s.truncated,
                 !.released = s.released, !.releaseCalls = s.releaseCalls,
                 !.hadSlot = s.hadSlot, !.connects = s.connects]

\* variant of dbThrow: the catch block rethrows the error it caught
dbThrowKeepsError(s, error) ==
  [s EXCEPT !.fn = "ending",
            !.outcome = error,
            !.listener = FALSE,
            !.ends = Min(@ + 1, MaxCount)]

\* a throw inside the try block: catch (aborted ? abortError : error), then the
\* finally block up to `await client.end()`
dbThrow(s, error) ==
  [s EXCEPT !.fn = "ending",
            !.outcome = IF s.aborted THEN "AbortError" ELSE error,
            !.listener = FALSE,
            !.ends = Min(@ + 1, MaxCount)]

\* the return statement of the try block, then the finally block up to
\* `await client.end()`
dbReturn(s, rowCount, limit) ==
  [s EXCEPT !.fn = "ending",
            !.outcome = "result",
            !.rows = Len(queryResult([rows |-> ServerRows(rowCount),
                                      rowCount |-> Given(rowCount)], limit).rows),
            !.truncated = queryResult([rows |-> ServerRows(rowCount),
                                       rowCount |-> Given(rowCount)], limit).truncated,
            !.progress = 10,
            !.listener = FALSE,
            !.ends = Min(@ + 1, MaxCount)]

\* executeDatabaseQuery up to `await dbConcurrency.acquire(...)`; options.signal
\* is live or already aborted (a call without a signal behaves as one whose
\* signal never fires)
DbStart(c, profileName, query, sig) ==
  /\ executor = "db"
  /\ db[c].fn = "idle"
  /\ \A d \in Calls : d < c => db[d].fn # "idle"
  /\ LET s0 == [db[c] EXCEPT !.profile = profileName, !.query = query, !.sig = sig]
     IN
     IF profileName # config.name
       THEN /\ db' = [db EXCEPT ![c] = dbReturned(s0, "NotFound")]
            /\ UNCHANGED dbConcurrency
     ELSE IF \/ validateQuerySafety(query) # "ok"
             \/ ~ensureQueryAllowed(query, config.profile.allowedStatementPatterns)
       THEN /\ db' = [db EXCEPT ![c] = dbReturned(s0, "PolicyViolation")]
            /\ UNCHANGED dbConcurrency
     ELSE LET res == acquire(dbConcurrency, profileName, config.profile.maxConcurrent,
                             c, sig)
              s1 == [s0 EXCEPT !.progress = 0]
          IN /\ dbConcurrency' = res.st
             /\ db' = [db EXCEPT ![c] =
                  IF res.outcome = "granted" THEN [s1 EXCEPT !.fn = "granted", !.hadSlot = TRUE]
                  ELSE IF res.outcome = "queued" THEN [s1 EXCEPT !.fn = "queued"]
                  ELSE dbReturned(s1, "AbortError")]
  /\ UNCHANGED <<cfgVars, sshVars, limVars, logger, unitVars>>

\* after the await: new Client, the abort check, the listener, client.connect()
DbConnect(c) ==
  /\ db[c].fn = "granted"
  /\ LET s == db[c] IN
     db' = [db EXCEPT ![c] =
       IF s.sig = "aborted"
         THEN dbThrow([s EXCEPT !.aborted = TRUE], "AbortError")
         ELSE [s EXCEPT !.listener = (s.sig = "live"),
                        !.progress = 1,
                        !.fn = "connecting",
                        !.connects = Min(@ + 1, MaxCount)]]
  /\ UNCHANGED <<cfgVars, sshVars, dbConcurrency, limVars, logger, unitVars>>

\* client.connect() resolves or rejects; applyTimeout issues SET statement_timeout
\* (timeoutMs is computed from a call without override)
DbConnected(c, ok) ==
  /\ db[c].fn = "connecting"
  /\ LET s == [db[c] EXCEPT !.connected = ok] IN
     db' = [db EXCEPT ![c] =
       IF ~ok THEN dbThrow(s, "TransportError")
       ELSE IF s.aborted THEN dbThrow(s, "AbortError")
       ELSE [s EXCEPT !.progress = 3,
                      !.fn = "applyTimeout",
                      !.issued = Append(@, applyTimeout(
                          timeoutMs(Nullish, config.profile.maxExecutionMs)))]]
  /\ UNCHANGED <<cfgVars, sshVars, dbConcurrency, limVars, logger, unitVars>>

\* variant of DbTimeoutApplied: client.query is issued whatever became of the
\* SET statement
DbTimeoutAppliedIgnoresFailure(c, ok) ==
  /\ db[c].fn = "applyTimeout"
  /\ db' = [db EXCEPT ![c] = [db[c] EXCEPT !.timeoutSet = ok,
                                          !.progress = 6,
                                          !.fn = "query",
                                          !.issued = Append(@, <<"query">>)]]
  /\ UNCHANGED <<cfgVars, sshVars, dbConcurrency, limVars, logger, unitVars>>

\* the SET statement resolves or rejects; client.query issues the query
DbTimeoutApplied(c, ok) ==
  /\ db[c].fn = "applyTimeout"
  /\ LET s == [db[c] EXCEPT !.timeoutSet = ok] IN
     db' = [db EXCEPT ![c] =
       IF ~ok THEN dbThrow(s, "QueryError")
       ELSE [s EXCEPT !.progress = 6,
                      !.fn = "query",
                      !.issued = Append(@, <<"query">>)]]
  /\ UNCHANGED <<cfgVars, sshVars, dbConcurrency, limVars, logger, unitVars>>

\* the query resolves with rowCount rows or rejects (rowLimit is computed for a
\* call without override)
DbQueryResult(c, ok, rowCount) ==
  /\ db[c].fn = "query"
  /\ LET s == db[c] IN
     db' = [db EXCEPT ![c] =
       IF ~ok THEN dbThrow(s, "QueryError")
       ELSE IF s.aborted THEN dbThrow(s, "AbortError")
       ELSE dbReturn(s, rowCount, rowLimit(Nullish, config.profile.maxRows))]
  /\ UNCHANGED <<cfgVars, sshVars, dbConcurrency, limVars, logger, unitVars>>

\* variant of DbEnded: a rejection of client.end() leaves the finally block
\* before release()
DbEndedNoReleaseOnCloseError(c, ok) ==
  /\ db[c].fn = "ending"
  /\ LET s == db[c]
         res == IF s.released \/ ~ok THEN [st |-> dbConcurrency, next |-> NoWaiter]
                ELSE release(dbConcurrency, s.profile)
         s1 == dbReturned(IF ok THEN [s EXCEPT !.released = TRUE,
                                               !.releaseCalls = Min(@ + 1, MaxCount)]
                          ELSE s, s.outcome)
     IN /\ dbConcurrency' = res.st
        /\ db' = [w \in Calls |->
              IF w = c THEN s1
              ELSE IF w = res.next THEN [db[w] EXCEPT !.fn = "granted", !.hadSlot = TRUE]
              ELSE db[w]]
  /\ logger' = IF ok THEN logger ELSE logger \cup {"Error closing database client"}
  /\ UNCHANGED <<cfgVars, sshVars, limVars, unitVars>>

\* client.end() resolves or rejects (a rejection is logged and dropped), then
\* release() and the call returns or throws
DbEnded(c, ok) ==
  /\ db[c].fn = "ending"
  /\ LET s == db[c]
         res == IF s.released THEN [st |-> dbConcurrency, next |-> NoWaiter]
                ELSE release(dbConcurrency, s.profile)
         s1 == dbReturned([s EXCEPT !.released = TRUE,
                                    !.releaseCalls = Min(@ + 1, MaxCount)], s.outcome)
     IN /\ dbConcurrency' = res.st
        /\ db' = [w \in Calls |->
              IF w = c THEN s1
              ELSE IF w = res.next THEN [db[w] EXCEPT !.fn = "granted", !.hadSlot = TRUE]
              ELSE db[w]]
  /\ logger' = IF ok THEN logger ELSE logger \cup {"Error closing database client"}
  /\ UNCHANGED <<cfgVars, sshVars, limVars, unitVars>>

\* options.signal fires: the limiter's listener while queued, the executor's
\* abortListener while it is registered, nobody otherwise
DbAbort(c) ==
  /\ db[c].sig = "live"
  /\ db[c].fn \notin {"idle", "done"}
  /\ LET s == [db[c] EXCEPT !.sig = "aborted", !.abortAt = db[c].fn] IN
     IF s.fn = "queued"
       THEN /\ dbConcurrency' = abortListener(dbConcurrency, s.profile, c)
            /\ db' = [db EXCEPT ![c] =
                 [dbReturned(s, "AbortError") EXCEPT !.abortAt = "queued"]]
       ELSE /\ db' = [db EXCEPT ![c] =
                 IF s.listener
                   THEN [s EXCEPT !.aborted = TRUE, !.progress = 10,
                                  !.destroys = Min(@ + 1, MaxCount)]
                   ELSE s]
            /\ UNCHANGED dbConcurrency
  /\ UNCHANGED <<cfgVars, sshVars, limVars, logger, unitVars>>

DbNext ==
  \/ \E c \in Calls, n \in ProfileArgs, query \in Queries,
        sig \in {"live", "aborted"} : DbStart(c, n, query, sig)
  \/ \E c \in Calls : DbConnect(c)
  \/ \E c \in Calls, ok \in BOOLEAN : DbConnected(c, ok)
  \/ \E c \in Calls, ok \in BOOLEAN : DbTimeoutApplied(c, ok)
  \/ \E c \in Calls, ok \in BOOLEAN, rowCount \in 0..(MaxRows + 1) : DbQueryResult(c, ok, rowCount)
  \/ \E c \in Calls, ok \in BOOLEAN : DbEnded(c, ok)
  \/ \E c \in Calls : DbAbort(c)

(***************************************************************************)
(* Specifications.                                                         *)
(***************************************************************************)
NoLimits == [executor |-> "none"]

NotValidated == [query |-> <<>>, verdict |-> "none", classes |-> <<>>]

\* no call of runTrainingJob is made
JobIdle ==
  [fn |-> "idle", subclasses |-> <<>>, dryRun |-> FALSE, template |-> TRUE,
   sink |-> "none", healthy |-> 0, delivered |-> 0, signal |-> "live", index |-> 1,
   tasks |-> <<>>, invoked |-> <<>>, status |-> "none", error |-> "none"]

\* no unit is exercised on its own
UnitIdle ==
  /\ validated = NotValidated
  /\ limits = NoLimits
  /\ buffer = createTruncatingBuffer(0)
  /\ pushed = <<>>
  /\ job = JobIdle

\* the executors at rest: no call of them is made (specification Spec drives
\* the bare limiter only), their tables of calls are empty
ExecIdle ==
  /\ config = resolveConfig("production", "training", TrainingProfile)
  /\ executor = "none"
  /\ sshConcurrency = EmptyStates
  /\ ssh = <<>>
  /\ dbConcurrency = EmptyStates
  /\ db = <<>>
  /\ logger = {}

Init == LimInit /\ ExecIdle /\ UnitIdle

Next == LimNext

Spec == Init /\ [][Next]_vars

\* the first call of the release closure a holder was given
FirstRelease(r) == ~rReleased[r] /\ ReleaseCall(r)

\* the bare limiter on one key with holders that all release their slot; the
\* signals fire or not as the callers please
FairNext ==
  \/ \E r \in Reqs, sig \in {"live", "aborted"} : Acquire(r, "a", sig)
  \/ \E r \in Reqs : Abort(r)
  \/ \E r \in Reqs : ReleaseCall(r)

SpecFair == Init /\ [][FairNext]_vars /\ \A r \in Reqs : WF_vars(FirstRelease(r))

\* refreshConfig(): the configuration is loaded again and the callers that
\* arrive from now on pass the new maxConcurrent of the profile
PolicyChange(key, limit) ==
  /\ policy[key] # limit
  /\ policy' = [policy EXCEPT ![key] = limit]
  /\ UNCHANGED <<states, rStatus, rKey, rSig, rReleased, kCreated, rGen, repeats,
                 staleRepeat, rWasQueued, arrived, execVars, unitVars>>

\* the bare limiter under a policy that changes between the calls; the callers
\* all use one key
PolicyNext ==
  \/ \E r \in Reqs, sig \in {"live", "aborted"} : Acquire(r, "a", sig)
  \/ \E r \in Reqs : Abort(r)
  \/ \E r \in Reqs : ReleaseCall(r)
  \/ \E limit \in Limits : PolicyChange("a", limit)

SpecPolicy == Init /\ [][PolicyNext]_vars

\* the bare limiter at rest, the executors about to serve the calls of a
\* run: one executor and one configuration snapshot per run
ExecInit ==
  /\ LimInit
  /\ policy = [k \in Keys |-> 1]
  /\ \/ executor = "ssh" /\ config \in Snapshots
     \/ executor = "db" /\ config \in DbSnapshots
  /\ sshConcurrency = EmptyStates
  /\ ssh = [c \in Calls |-> SshIdle]
  /\ dbConcurrency = EmptyStates
  /\ db = [c \in Calls |-> DbIdle]
  /\ logger = {}
  /\ UnitIdle

ExecNext == SshNext \/ DbNext

SpecExec == ExecInit /\ [][ExecNext]_vars

\* the executors with the steps the program takes by itself: the continuation
\* of a granted acquire, an armed timer that expires, the continuation of the
\* settled promise.  Whether and when a connection, a statement or a close
\* completes is left to the network.
SpecExecFair ==
  /\ ExecInit
  /\ [][ExecNext]_vars
  /\ \A c \in Calls : /\ WF_vars(SshConnect(c))
                      /\ WF_vars(SshTimeout(c))
                      /\ WF_vars(SshFinally(c))
                      /\ WF_vars(DbConnect(c))

(***************************************************************************)
(* validateQuerySafety on its own, over every text of a bounded alphabet.  *)
(***************************************************************************)
\* the characters the scan tells apart (quotes, backslash, semicolon, the
\* characters of the comment markers, white space) and one other character
Alphabet == {"'", "\"", "\\", ";", "-", "/", "*", " ", "a"}

QueryStrings == UNION {[1..n -> Alphabet] : n \in 0..MaxLen}

\* the quote tracking of the loop of validateQuerySafety from position i: for
\* each character the loop reaches, whether it toggles a literal ("delimiter"),
\* is skipped as part of a literal ("inside") or goes on to the comment and
\* semicolon checks ("outside"); the loop stops where it throws
RECURSIVE classify(_, _, _, _, _)
classify(trimmed, i, inSingleQuote, inDoubleQuote, semicolonIndex) ==
  IF i > Len(trimmed) THEN <<>>
  ELSE LET char == trimmed[i]
           prev == IF i > 1 THEN trimmed[i - 1] ELSE "undefined"
           next == IF i < Len(trimmed) THEN trimmed[i + 1] ELSE "undefined"
           isEscaped == prev = "\\"
       IN
       IF ~isEscaped /\ char = "'" /\ ~inDoubleQuote
         THEN <<"delimiter">> \o classify(trimmed, i + 1, ~inSingleQuote, inDoubleQuote,
                                          semicolonIndex)
       ELSE IF ~isEscaped /\ char = "\"" /\ ~inSingleQuote
         THEN <<"delimiter">> \o classify(trimmed, i + 1, inSingleQuote, ~inDoubleQuote,
                                          semicolonIndex)
       ELSE IF inSingleQuote \/ inDoubleQuote
         THEN <<"inside">> \o classify(trimmed, i + 1, inSingleQuote, inDoubleQuote,
                                       semicolonIndex)
       ELSE IF \/ char = "-" /\ next = "-"
               \/ char = "/" /\ next = "*"
               \/ char = ";" /\ semicolonIndex # 0
         THEN <<"outside">>
       ELSE <<"outside">> \o classify(trimmed, i + 1, inSingleQuote, inDoubleQuote,
                                      IF char = ";" THEN i ELSE semicolonIndex)

\* validateQuerySafety(query) returns or throws
Validate ==
  /\ validated.verdict = "none"
  /\ validated' = [validated EXCEPT
        !.verdict = validateQuerySafety(validated.query),
        !.classes = classify(trim(validated.query), 1, FALSE, FALSE, 0)]
  /\ UNCHANGED <<limVars, execVars, limits, buffer, pushed, job>>

QueryInit ==
  /\ LimInit /\ policy = [k \in Keys |-> 1]
  /\ ExecIdle
  /\ validated \in {[NotValidated EXCEPT !.query = q] : q \in QueryStrings}
  /\ limits = NoLimits
  /\ buffer = createTruncatingBuffer(0)
  /\ pushed = <<>>
  /\ job = JobIdle

QueryNext == Validate

SpecQuery == QueryInit /\ [][QueryNext]_vars

(***************************************************************************)
(* The limits of a call, the TruncatingBuffer and the row cap on their own. *)
(***************************************************************************)
\* the ceilings a profile can have (schema.ts: positive integers)
Ceilings == 1..MaxCeiling

\* what a caller can pass as an override: nothing, or any integer
Overrides == {Nullish} \cup {Given(n) : n \in -1..(MaxCeiling + 1)}

Bytes == {"x", "y"}

Chunks == UNION {[1..n -> Bytes] : n \in 0..MaxCeiling}

\* what the server answers: its rows, and their number or no number
ServerResults ==
  {[rows |-> ServerRows(n), rowCount |-> IF counted THEN Given(n) ELSE Nullish] :
     n \in 0..(MaxCeiling + 1), counted \in BOOLEAN}

\* executeSshCommand: timeoutLimit, which the timer is set with, and
\* outputLimit, which the buffers are created with
SshLimits ==
  /\ limits.executor = "ssh" /\ limits.fn = "called"
  /\ limits' = [limits EXCEPT
        !.fn = "running",
        !.timeoutLimit = timeoutLimit(limits.options.timeoutMs, limits.policy.maxExecutionMs),
        !.outputLimit = outputLimit(limits.options.maxOutputBytes,
                                    limits.policy.maxOutputBytes)]
  /\ UNCHANGED <<limVars, execVars, validated, buffer, pushed, job>>

\* executeDatabaseQuery: timeoutMs and rowLimit
DbLimits ==
  /\ limits.executor = "db" /\ limits.fn = "called"
  /\ limits' = [limits EXCEPT
        !.fn = "running",
        !.timeoutMs = timeoutMs(limits.options.timeoutMs, limits.profile.maxExecutionMs),
        !.rowLimit = rowLimit(limits.options.rowLimit, limits.profile.maxRows)]
  /\ UNCHANGED <<limVars, execVars, validated, buffer, pushed, job>>

\* executeDatabaseQuery: the query resolves and the call returns
DbRows(result) ==
  /\ limits.executor = "db" /\ limits.fn = "running"
  /\ limits' = [limits EXCEPT !.fn = "returned",
                              !.server = result,
                              !.result = queryResult(result, limits.rowLimit)]
  /\ UNCHANGED <<limVars, execVars, validated, buffer, pushed, job>>

\* a data handler pushes a chunk to the buffer
Push(chunk) ==
  /\ limits.executor = "buffer"
  /\ Len(pushed) <= MaxCeiling
  /\ buffer' = pushChunk(buffer, chunk)
  /\ pushed' = Append(pushed, chunk)
  /\ UNCHANGED <<limVars, execVars, validated, limits, job>>

LimitsInit ==
  /\ LimInit /\ policy = [k \in Keys |-> 1]
  /\ ExecIdle
  /\ validated = NotValidated
  /\ pushed = <<>>
  /\ job = JobIdle
  /\ \/ /\ limits \in {[executor |-> "ssh", fn |-> "called",
                         options |-> [timeoutMs |-> t, maxOutputBytes |-> o],
                         policy |-> [maxExecutionMs |-> e, maxOutputBytes |-> b],
                         timeoutLimit |-> 0, outputLimit |-> 0] :
                          t \in Overrides, o \in Overrides, e \in Ceilings, b \in Ceilings}
        /\ buffer = createTruncatingBuffer(0)
     \/ /\ limits \in {[executor |-> "db", fn |-> "called",
                         options |-> [timeoutMs |-> t, rowLimit |-> o],
                         profile |-> [maxExecutionMs |-> e, maxRows |-> b],
                         timeoutMs |-> 0, rowLimit |-> 0,
                         server |-> [rows |-> <<>>, rowCount |-> Nullish],
                         result |-> [rows |-> <<>>, truncated |-> FALSE, rowCount |-> 0]] :
                          t \in Overrides, o \in Overrides, e \in Ceilings, b \in Ceilings}
        /\ buffer = createTruncatingBuffer(0)
     \/ /\ limits = [executor |-> "buffer"]
        /\ buffer \in {createTruncatingBuffer(n) : n \in -1..MaxCeiling}

LimitsNext ==
  \/ SshLimits
  \/ DbLimits
  \/ \E result \in ServerResults : DbRows(result)
  \/ \E chunk \in Chunks : Push(chunk)

SpecLimits == LimitsInit /\ [][LimitsNext]_vars

(***************************************************************************)
(* runTrainingJob (trainingService): one call, from its input to its       *)
(* report.  The call of executeSshCommand it awaits is taken by what it     *)
(* settles with; tasks are numbered from 1 (the code's index + 1).          *)
(***************************************************************************)
MaxTasks == 3
MaxHealthy == 2

Subclasses == {"cats", "dogs"}

\* input.subclasses
SubclassLists == UNION {[1..n -> Subclasses] : n \in 1..MaxTasks}

\* createAbortError(message)
createAbortError(message) == [name |-> "AbortError", message |-> message]

\* new Error(message)
Error(message) == [name |-> "Error", message |-> message]

\* what a call of executeSshCommand resolves with
SshResult == [name |-> "result", message |-> "exit 0"]

\* what it resolves with: the command exited with 0, exited with another
\* code, or was killed by a signal (exitCode null)
SshResults ==
  {SshResult, [name |-> "result", message |-> "exit 1"],
   [name |-> "result", message |-> "signal SIGKILL"]}

\* the executor was not called
NoOutcome == [name |-> "none", message |-> ""]

\* the errors executeSshCommand rejects with when the signal has fired
CancelledErrors ==
  {createAbortError("Operation cancelled before starting"),
   createAbortError("SSH command cancelled")}

\* the errors executeSshCommand rejects with whatever the signal
OtherErrors ==
  {Error("SSH command timed out"), Error("SSH profile not found"),
   Error("Command is not permitted by policy"), Error("connect ECONNREFUSED")}

\* what the progress callback throws when its delivery fails
SinkError == Error("progress delivery failed")

\* input.onProgress: absent, the callback the trainClassifier tool passes (its
\* reporter catches a failed notification), or a callback that throws once
\* `healthy` deliveries were made
Sinks == {"none", "reporter", "callback"}

\* tasks.map: one pending report per subclass
mapTasks(subclasses) ==
  [i \in 1..Len(subclasses) |->
     [subclass |-> subclasses[i], status |-> "pending", logs |-> <<>>,
      outcome |-> NoOutcome, ran |-> FALSE]]

\* whether reportProgress throws when it is called now
sinkThrows(j) == j.sink = "callback" /\ j.delivered >= j.healthy

\* reportProgress with a delivery that returns
reportProgress(j) ==
  IF j.sink = "none" THEN j ELSE [j EXCEPT !.delivered = @ + 1]

\* an exception leaves runTrainingJob
throw(j, error) == [j EXCEPT !.fn = "threw", !.error = error.message]

\* appendLog(task, level, message)
appendLog(j, message) == [j EXCEPT !.tasks[j.index].logs = Append(@, message)]

setStatus(j, status) == [j EXCEPT !.tasks[j.index].status = status]

\* index += 1
next(j) == [j EXCEPT !.index = @ + 1]

\* tasks.every / tasks.some over the final statuses
overallStatusCancelledFirst(statuses) ==
  IF \A i \in DOMAIN statuses : statuses[i] = "succeeded" THEN "succeeded"
  ELSE IF \E i \in DOMAIN statuses : statuses[i] = "cancelled" THEN "cancelled"
  ELSE IF \E i \in DOMAIN statuses : statuses[i] = "failed" THEN "failed"
  ELSE "succeeded"

overallStatus(statuses) ==
  IF \A i \in DOMAIN statuses : statuses[i] = "succeeded" THEN "succeeded"
  ELSE IF \E i \in DOMAIN statuses : statuses[i] = "failed" THEN "failed"
  ELSE IF \E i \in DOMAIN statuses : statuses[i] = "cancelled" THEN "cancelled"
  ELSE "succeeded"

\* after the loop: the overall status, the last progress report, the return
complete(j) ==
  LET done == [j EXCEPT !.status = overallStatus([i \in DOMAIN j.tasks |-> j.tasks[i].status])]
  IN IF sinkThrows(done) THEN throw(done, SinkError)
     ELSE [reportProgress(done) EXCEPT !.fn = "returned"]

\* if (input.signal?.aborted)
signalAbortedIgnored(j) == FALSE

signalAborted(j) == j.signal = "aborted"

\* if (input.dryRun)
isDryRunIgnored(j) == FALSE

isDryRun(j) == j.dryRun

cancelEveryTask(j) ==
  [appendLog(j, "Training task cancelled before start")
     EXCEPT !.tasks = [i \in DOMAIN @ |-> [@[i] EXCEPT !.status = "cancelled"]]]

\* the branch of a task that finds the signal fired
cancelBeforeStart(j) ==
  setStatus(appendLog(j, "Training task cancelled before start"), "cancelled")

\* the dry-run branch up to its progress report
dryRunTask(j) ==
  appendLog(setStatus(j, "succeeded"), "Dry run: command rendered but not executed")

\* a live task up to its progress report
startAllTasks(j) ==
  appendLog([j EXCEPT !.tasks = [i \in DOMAIN @ |->
                                   IF i >= j.index
                                     THEN [@[i] EXCEPT !.status = "running", !.ran = TRUE]
                                     ELSE @[i]]],
            "Starting training command")

startTask(j) ==
  appendLog([setStatus(j, "running") EXCEPT !.tasks[j.index].ran = TRUE],
            "Starting training command")

\* the call of executeSshCommand, up to the await
invoke(j) == [j EXCEPT !.fn = "awaiting", !.invoked = Append(@, j.index)]

\* the loop from the task at j.index up to the next await, the return or a throw
RECURSIVE loop(_)
loop(j) ==
  IF j.index > Len(j.tasks) THEN complete(j)
  ELSE IF signalAborted(j) THEN loop(next(cancelBeforeStart(j)))
  ELSE IF isDryRun(j)
    THEN LET d == dryRunTask(j) IN
         IF sinkThrows(d) THEN throw(d, SinkError) ELSE loop(next(reportProgress(d)))
    ELSE LET s == startTask(j) IN
         IF sinkThrows(s) THEN throw(s, SinkError) ELSE invoke(reportProgress(s))

\* error instanceof Error && error.name === "AbortError"
isAbortErrorByMessage(error) == error.message = "SSH command cancelled"

isAbortError(error) == error.name = "AbortError"

\* the catch block of a task: the status, the log entry and the progress report
catchRethrows(j, error) == throw(setStatus(j, "failed"), error)

catch(j, error) ==
  LET c == IF isAbortError(error)
             THEN appendLog(setStatus(j, "cancelled"), "Training command cancelled")
             ELSE appendLog(setStatus(j, "failed"), "Training command failed")
  IN IF sinkThrows(c) THEN throw(c, SinkError) ELSE loop(next(reportProgress(c)))

settleChecksExitCode(j, outcome) ==
  LET t == [j EXCEPT !.tasks[j.index].outcome = outcome] IN
  IF outcome = SshResult
    THEN LET ok == appendLog(setStatus(t, "succeeded"), "Training command completed") IN
         IF sinkThrows(ok) THEN catch(ok, SinkError) ELSE loop(next(reportProgress(ok)))
    ELSE catch(t, Error(outcome.message))

\* the continuation of the await: the rest of the try block or the catch block,
\* then the loop again
settle(j, outcome) ==
  LET t == [j EXCEPT !.tasks[j.index].outcome = outcome] IN
  IF outcome.name = "result"
    THEN LET ok == appendLog(setStatus(t, "succeeded"), "Training command completed") IN
         IF sinkThrows(ok) THEN catch(ok, SinkError) ELSE loop(next(reportProgress(ok)))
    ELSE catch(t, outcome)

\* runTrainingJob(input), up to its first await
TrainStart(subclasses, dryRun, template, sink, healthy, signal) ==
  /\ job.fn = "idle"
  /\ sink # "callback" => healthy = 0
  /\ LET j == [job EXCEPT !.subclasses = subclasses, !.dryRun = dryRun,
                          !.template = template, !.sink = sink, !.healthy = healthy,
                          !.signal = signal]
     IN job' = IF ~template THEN throw(j, Error("No command template supplied for training job"))
               ELSE LET m == [j EXCEPT !.tasks = mapTasks(subclasses)] IN
                    IF sinkThrows(m) THEN throw(m, SinkError)
                    ELSE loop(reportProgress(m))
  /\ UNCHANGED <<limVars, execVars, validated, limits, buffer, pushed>>

TrainSettleAnyError(outcome) ==
  /\ job.fn = "awaiting"
  /\ job' = settle(job, outcome)
  /\ UNCHANGED <<limVars, execVars, validated, limits, buffer, pushed>>

\* the call of executeSshCommand settles and runTrainingJob resumes
\* (it rejects with the abort error only when the signal has fired)
TrainSettle(outcome) ==
  /\ job.fn = "awaiting"
  /\ outcome \in CancelledErrors => job.signal = "aborted"
  /\ job' = settle(job, outcome)
  /\ UNCHANGED <<limVars, execVars, validated, limits, buffer, pushed>>

\* input.signal fires while the call of executeSshCommand is in flight
TrainAbort ==
  /\ job.fn = "awaiting"
  /\ job.signal = "live"
  /\ job' = [job EXCEPT !.signal = "aborted"]
  /\ UNCHANGED <<limVars, execVars, validated, limits, buffer, pushed>>

TrainInit ==
  /\ LimInit /\ policy = [k \in Keys |-> 1]
  /\ ExecIdle
  /\ validated = NotValidated
  /\ limits = NoLimits
  /\ buffer = createTruncatingBuffer(0)
  /\ pushed = <<>>
  /\ job = JobIdle

TrainNext ==
  \/ \E subclasses \in SubclassLists, dryRun \in BOOLEAN, template \in BOOLEAN,
        sink \in Sinks, healthy \in 0..MaxHealthy, signal \in {"live", "aborted"} :
       TrainStart(subclasses, dryRun, template, sink, healthy, signal)
  \/ \E outcome \in SshResults \cup CancelledErrors \cup OtherErrors : TrainSettle(outcome)
  \/ TrainAbort

SpecTrain == TrainInit /\ [][TrainNext]_vars

(***************************************************************************)
(* Claims about the ConcurrencyLimiter (specification Spec).               *)
(***************************************************************************)
\* callers that were granted a slot of the key and did not release it yet
Holders(key) == {r \in Reqs : rStatus[r] = "granted" /\ ~rReleased[r] /\ rKey[r] = key}
\* callers waiting in the queue of the key, as the callers see it
Waiting(key) == {r \in Reqs : rStatus[r] = "queued" /\ rKey[r] = key}
\* position of a caller in the arrival order
RECURSIVE PosIn(_, _)
PosIn(seq, x) == IF seq = <<>> THEN 0 ELSE IF Head(seq) = x THEN 1 ELSE 1 + PosIn(Tail(seq), x)
ArrivedBefore(a, b) == PosIn(arrived, a) < PosIn(arrived, b)
Without(seq, x) == SelectSeq(seq, LAMBDA y : y # x)
SeqRange(seq) == {seq[i] : i \in 1..Len(seq)}

\* C1: with every acquire of a key passing the same limit N >= 1, the key never
\* has more than N granted-and-not-released slots, and a caller is granted a slot
\* only if fewer than N were held just before or a holder released in that step.
C1_AtMostLimitHolders ==
  /\ [](\A k \in Keys : Cardinality(Holders(k)) <= policy[k])
  /\ [][\A r \in Reqs :
          (rStatus[r] # "granted" /\ rStatus'[r] = "granted")
            => \/ Cardinality(Holders(rKey'[r])) < policy[rKey'[r]]
               \/ \E h \in Holders(rKey'[r]) : rReleased'[h]]_vars

\* C1 witness: a key with limit 2 has two holders and a later caller is queued.
C1_Witness ==
  \E k \in Keys : /\ policy[k] = 2
                  /\ Cardinality(Holders(k)) = 2
                  /\ Waiting(k) # {}

\* C2: a call of an already used release closure changes nothing in the limiter
\* and grants nobody; the first call lowers the key's holders by one, and the
\* active count by one unless exactly one queued waiter takes the slot over.
C2_ReleaseIdempotent ==
  [][/\ (repeats' # repeats) => (states' = states /\ rStatus' = rStatus)
     /\ \A r \in Reqs :
          (~rReleased[r] /\ rReleased'[r]) =>
            LET k == rKey[r]
                woken == {w \in Reqs : rStatus[w] = "queued" /\ rStatus'[w] = "granted"}
            IN /\ Cardinality(woken) <= 1
               /\ woken \subseteq Waiting(k)
               /\ ActiveOf(states', k) = ActiveOf(states, k) - 1 + Cardinality(woken)]_vars

\* C2 witness: a used closure was called again while a waiter was queued for its
\* key and after the key's record had been discarded and created again.
C2_Witness == staleRepeat /\ repeats

\* C3: a waiter taken from the queue is the one that arrived first among the
\* callers still waiting for that key.
C3_FifoGrant ==
  [][\A w \in Reqs :
       (rStatus[w] = "queued" /\ rStatus'[w] = "granted")
         => \A v \in Waiting(rKey[w]) \ {w} : ArrivedBefore(w, v)]_vars

\* C3 witness: of three waiters of one key the first was cancelled, the second
\* was granted from the queue and the third still waits.
C3_Witness ==
  \E a, b, c \in Reqs :
    /\ rKey[a] = rKey[b] /\ rKey[b] = rKey[c]
    /\ ArrivedBefore(a, b) /\ ArrivedBefore(b, c)
    /\ rStatus[a] = "AbortError" /\ rWasQueued[a]
    /\ rStatus[b] = "granted" /\ rWasQueued[b]
    /\ rStatus[c] = "queued"

\* C4: when the signal of a queued waiter fires, the waiter fails with AbortError
\* and leaves the queue, the active count, the limit and the order of the other
\* waiters stay as they were and nobody else is affected; a signal that fires
\* after the grant changes nothing; a failed waiter is never granted later.
C4_CancelQueuedWaiter ==
  /\ [][\A r \in Reqs :
          (rStatus[r] # "idle" /\ rSig[r] = "live" /\ rSig'[r] = "aborted") =>
            IF rStatus[r] = "queued"
              THEN /\ rStatus' = [rStatus EXCEPT ![r] = "AbortError"]
                   /\ states' = [states EXCEPT ![rKey[r]].queue = Without(@, r)]
              ELSE states' = states /\ rStatus' = rStatus]_vars
  /\ [][\A r \in Reqs : rStatus[r] = "AbortError" => rStatus'[r] = "AbortError"]_vars
  /\ [](\A r \in Reqs : rStatus[r] = "AbortError" =>
          \A k \in DOMAIN states : r \notin SeqRange(states[k].queue))

\* C4 witness: a waiter was cancelled in the queue between two others that still
\* wait, and the signal of the holder fired after its grant.
C4_Witness ==
  \E a, r, c, g \in Reqs :
    /\ rKey[a] = rKey[r] /\ rKey[r] = rKey[c] /\ rKey[c] = rKey[g]
    /\ ArrivedBefore(a, r) /\ ArrivedBefore(r, c)
    /\ rStatus[a] = "queued" /\ rStatus[c] = "queued"
    /\ rStatus[r] = "AbortError" /\ rWasQueued[r]
    /\ g \in Holders(rKey[g]) /\ rSig[g] = "aborted"
    /\ states[rKey[r]].queue = <<a, c>>

(***************************************************************************)
(* Claims about executeSshCommand.                                         *)
(***************************************************************************)
SshQueue == QueueOf(sshConcurrency, config.name)

InFlight == {"connecting", "ready", "stream"}

C6_CancelWhileQueued ==
  /\ [][\A c \in Calls :
          (ssh[c].fn = "queued" /\ ssh[c].sig = "live" /\ ssh'[c].abortAt = "queued")
            => /\ ssh'[c].fn = "done"
               /\ ssh'[c].result = "AbortError"
               /\ sshConcurrency' = [sshConcurrency EXCEPT
                                       ![ssh[c].profile].queue = Without(@, c)]]_vars
  /\ [](\A c \in Calls :
          ssh[c].abortAt = "queued"
            => /\ ssh[c].fn = "done"
               /\ ssh[c].result = "AbortError"
               /\ ssh[c].connects = 0
               /\ ~ssh[c].hadSlot
               /\ c \notin SeqRange(SshQueue))

C6_Witness ==
  \E c, d \in Calls :
    /\ ssh[c].abortAt = "queued"
    /\ ssh[d].fn = "done" /\ ssh[d].result = "result" /\ ssh[d].released
    /\ ~HasState(sshConcurrency, config.name)

\* C7: a signal that fires after the grant while the call is connecting or
\* executing and has not settled settles the call with AbortError in that
\* step, destroys and ends the connection, stops the timer, and the call
\* returns AbortError having released its slot (the holder count goes down
\* by one unless the slot is handed to the next waiter).
C7_CancelInFlight ==
  /\ [][\A c \in Calls :
          (/\ ssh[c].fn = "awaiting" /\ ~ssh[c].settled /\ ssh[c].conn \in InFlight
           /\ ssh[c].sig = "live" /\ ssh'[c].sig = "aborted")
            => /\ ssh'[c].settled
               /\ ssh'[c].outcome = "AbortError"
               /\ ssh'[c].destroys = ssh[c].destroys + 1
               /\ ssh'[c].ends = ssh[c].ends + 1
               /\ ssh'[c].timer = "cleared"
               /\ ssh'[c].abortAt \in InFlight]_vars
  /\ [](\A c \in Calls :
          ssh[c].abortAt \in InFlight
            => /\ ssh[c].fn = "awaiting" /\ ssh[c].settled /\ ssh[c].outcome = "AbortError"
               /\ ssh[c].destroys >= 1 /\ ssh[c].ends >= 1 /\ ssh[c].timer = "cleared")
  /\ [][\A c \in Calls :
          (ssh[c].abortAt \in InFlight /\ ssh'[c].fn = "done")
            => /\ ssh'[c].result = "AbortError"
               /\ ssh'[c].released /\ ssh'[c].releaseCalls = 1
               /\ ActiveOf(sshConcurrency', config.name) =
                    ActiveOf(sshConcurrency, config.name)
                    - (IF QueueOf(sshConcurrency, config.name) = <<>> THEN 1 ELSE 0)]_vars

C7_Witness ==
  \E c, d \in Calls :
    /\ ssh[c].fn = "done" /\ ssh[c].result = "AbortError" /\ ssh[c].connects = 1
    /\ ssh[c].released
    /\ ssh[d].abortAt = "stream" /\ ssh[d].settled /\ ssh[d].conn = "closed"

\* C8: the inner promise of a call is settled by exactly one finalize; once
\* it is settled no close, error, timeout or abort event changes the outcome,
\* an abort that comes after it changes nothing but the signal, and the call
\* returns that outcome and nothing after it.
C8_SettlesOnce ==
  /\ [](\A c \in Calls :
          /\ ssh[c].settleCalls <= 1
          /\ ssh[c].settled => (ssh[c].settleCalls = 1 /\ ssh[c].outcome # "none")
          /\ ssh[c].timer = "armed" => ~ssh[c].settled)
  /\ [][\A c \in Calls :
          /\ (ssh[c].settled /\ ssh'[c].fn = "awaiting")
                => /\ ssh'[c].settled
                   /\ ssh'[c].outcome = ssh[c].outcome
                   /\ ssh'[c].settleCalls = 1
          /\ (ssh[c].settled /\ ssh'[c].fn = "done") => ssh'[c].result = ssh[c].outcome
          /\ (ssh[c].settled /\ ssh[c].sig = "live" /\ ssh'[c].sig = "aborted")
                => ssh'[c] = [ssh[c] EXCEPT !.sig = "aborted", !.abortAt = "settled"]
          /\ ssh[c].fn = "done" => ssh'[c] = ssh[c]]_vars

C8_Witness ==
  \E c, d \in Calls :
    /\ ssh[c].fn = "done" /\ ssh[c].result = "result"
    /\ ssh[d].fn = "awaiting" /\ ssh[d].outcome = "Timeout" /\ ssh[d].conn = "closed"
    /\ ssh[d].errored /\ ssh[d].abortAt = "settled" /\ ssh[d].ends >= 2

\* C9: the timer is armed only while the call is unsettled and its stream
\* has not closed; when it fires the call settles with Timeout in that step
\* and the connection is ended, the call returns Timeout with its slot
\* released, and a data event on stdout or stderr leaves the timer as it was.
C9_TimeoutBeforeClose ==
  /\ [][\A c \in Calls :
          /\ (ssh[c].timer = "armed" /\ ssh'[c].timer = "fired")
                => /\ ssh'[c].settled
                   /\ ssh'[c].outcome = "Timeout"
                   /\ ssh'[c].ends = ssh[c].ends + 1
                   /\ ~ssh'[c].listener
          /\ (ssh'[c].stdout # ssh[c].stdout \/ ssh'[c].stderr # ssh[c].stderr)
                /\ ssh'[c].fn = "awaiting"
                => ssh'[c].timer = ssh[c].timer /\ ssh'[c].settled = ssh[c].settled]_vars
  /\ [](\A c \in Calls :
          /\ ssh[c].timer = "armed"
                => ssh[c].fn = "awaiting" /\ ~ssh[c].settled /\ ssh[c].conn \in InFlight
          /\ ssh[c].timer = "fired"
                => /\ ssh[c].fn = "awaiting" /\ ssh[c].settled
                   /\ ssh[c].outcome = "Timeout" /\ ssh[c].ends >= 1)
  /\ [][\A c \in Calls :
          (ssh[c].timer = "fired" /\ ssh'[c].fn = "done")
            => /\ ssh'[c].result = "Timeout"
               /\ ssh'[c].released /\ ssh'[c].releaseCalls = 1
               /\ ActiveOf(sshConcurrency', config.name) =
                    ActiveOf(sshConcurrency, config.name)
                    - (IF QueueOf(sshConcurrency, config.name) = <<>> THEN 1 ELSE 0)]_vars

C9_Witness ==
  \E c, d \in Calls :
    /\ ssh[c].fn = "done" /\ ssh[c].result = "Timeout" /\ ssh[c].released
    /\ ssh[d].fn = "awaiting" /\ ssh[d].timer = "fired" /\ ssh[d].conn = "stream"
    /\ ssh[d].stdout.truncated /\ ssh[d].stderr.byteLength > 0

(***************************************************************************)
(* Claims about both executors.                                            *)
(***************************************************************************)
\* the command matches no pattern of the profile's non-empty allowlist
CommandFailsPolicy(s) ==
  /\ s.profile = config.name
  /\ ~ensureCommandAllowed(s.command, config.profile.allowedCommandPatterns)

\* the query fails the safety scan or matches no pattern of the allowlist
QueryFailsPolicy(s) ==
  /\ s.profile = config.name
  /\ \/ validateQuerySafety(s.query) # "ok"
     \/ ~ensureQueryAllowed(s.query, config.profile.allowedStatementPatterns)

\* C10: a call of either executor whose command or query fails the policy
\* check returns PolicyViolation in its first step, with the limiter left as
\* it was, and it never holds a slot and never opens a connection.
C10_PolicyBeforeSlot ==
  /\ [][\A c \in Calls :
          /\ (executor = "ssh" /\ ssh[c].fn = "idle" /\ ssh'[c].fn # "idle"
                 /\ CommandFailsPolicy(ssh'[c]))
                => /\ ssh'[c].fn = "done"
                   /\ ssh'[c].result = "PolicyViolation"
                   /\ sshConcurrency' = sshConcurrency
          /\ (executor = "db" /\ db[c].fn = "idle" /\ db'[c].fn # "idle"
                 /\ QueryFailsPolicy(db'[c]))
                => /\ db'[c].fn = "done"
                   /\ db'[c].result = "PolicyViolation"
                   /\ dbConcurrency' = dbConcurrency]_vars
  /\ [](\A c \in Calls :
          /\ (executor = "ssh" /\ ssh[c].fn # "idle" /\ CommandFailsPolicy(ssh[c]))
                => ssh[c].connects = 0 /\ ~ssh[c].hadSlot
          /\ (executor = "db" /\ db[c].fn # "idle" /\ QueryFailsPolicy(db[c]))
                => db[c].connects = 0 /\ ~db[c].hadSlot)

\* C11: with INFER_MCP_MODE not set the allowlist check is applied to every
\* profile, the one named local-test and the ones on a loopback host
\* included: a started call whose command matches no pattern of its profile
\* has returned PolicyViolation.
C11_BypassDefaultsOff ==
  (executor = "ssh" /\ config.mode = "unset")
    => \A c \in Calls :
         (ssh[c].fn # "idle" /\ CommandFailsPolicy(ssh[c]))
           => ssh[c].fn = "done" /\ ssh[c].result = "PolicyViolation"

(***************************************************************************)
(* Claims about executeDatabaseQuery.                                      *)
(***************************************************************************)
DbActive == ActiveOf(dbConcurrency, config.name)

\* C12: on every exit path of executeDatabaseQuery after the slot was granted
\* (result, connect error, session-limit error, query error, cancellation) the
\* close of the connection has been attempted and the slot is released exactly
\* once, by the step in which the call returns, also when the close fails.
C12_CloseAndReleaseOnExit ==
  /\ [](\A c \in Calls :
          db[c].hadSlot =>
            IF db[c].fn = "done" THEN db[c].released /\ db[c].releaseCalls = 1
            ELSE ~db[c].released /\ db[c].releaseCalls = 0)
  /\ [][\A c \in Calls :
          (db[c].hadSlot /\ db[c].fn # "done" /\ db'[c].fn = "done") =>
            LET woken == {w \in Calls : db[w].fn = "queued" /\ db'[w].fn = "granted"}
            IN /\ db[c].fn = "ending" /\ db[c].ends = 1
               /\ db'[c].released /\ db'[c].releaseCalls = 1
               /\ ActiveOf(dbConcurrency', config.name)
                    = DbActive - 1 + Cardinality(woken)]_vars

\* C12 witness: the first call threw a query error, its close failed, and the
\* slot it released went to the second call, which was waiting.
C12_Witness ==
  /\ executor = "db"
  /\ db[1].fn = "done" /\ db[1].result = "QueryError" /\ db[1].hadSlot
  /\ db[1].released /\ db[1].releaseCalls = 1
  /\ logger # {}
  /\ db[2].fn = "granted" /\ DbActive = 1

\* the stages of a call between the grant of its slot and the end of its try block
DbInTry == {"granted", "connecting", "applyTimeout", "query"}

\* C13 as stated: a call whose signal fires after the grant of its slot and
\* before it has returned fails with the abort error.
C13_CancelAfterGrant ==
  [][\A c \in Calls :
       (db[c].abortAt \in DbInTry \cup {"ending"} /\ db[c].fn # "done" /\ db'[c].fn = "done")
         => db'[c].result = "AbortError"]_vars

\* C13 amended: a call whose signal fires after the grant of its slot and
\* before its try block is left (while it starts, connects, sets the statement
\* timeout or runs the query) fails with the abort error, whatever error the
\* aborted connect or query surfaces; a signal that fires while the connection
\* is being closed leaves the outcome of the call as it was.
C13_CancelInTry ==
  /\ [](\A c \in Calls :
          (db[c].abortAt \in DbInTry /\ db[c].fn = "ending") => db[c].outcome = "AbortError")
  /\ [][\A c \in Calls :
          (db[c].fn # "done" /\ db'[c].fn = "done") =>
            /\ db[c].abortAt \in DbInTry => db'[c].result = "AbortError"
            /\ db[c].abortAt = "ending" => db'[c].result = db[c].outcome]_vars

\* C13 witness: the signal fired while the call was connecting, the connect
\* was rejected, and the call is about to throw the abort error.
C13_Witness ==
  \E c \in Calls :
    /\ db[c].fn = "ending" /\ db[c].abortAt = "connecting"
    /\ db[c].connects = 1 /\ ~db[c].connected
    /\ db[c].outcome = "AbortError"

\* C14: the first statement a call sends is the one that sets the statement
\* timeout to the time limit of the call (the profile's maxExecutionMs for a
\* call without override), sent once the connect has succeeded; the data query
\* is the second statement, sent only once that statement has succeeded too.
C14_TimeoutBeforeQuery ==
  /\ [](\A c \in Calls :
          /\ Len(db[c].issued) <= 2
          /\ \A i \in 1..Len(db[c].issued) : db[c].issued[i] = <<"query">> => i = 2
          /\ db[c].issued # <<>> =>
                /\ db[c].issued[1] = <<"SET statement_timeout", config.profile.maxExecutionMs>>
                /\ db[c].connected)
  /\ [][\A c \in Calls :
          (db'[c].fn # "done" /\ Len(db'[c].issued) = 2 /\ Len(db[c].issued) < 2)
            => /\ Len(db[c].issued) = 1
               /\ db'[c].issued[2] = <<"query">>
               /\ db'[c].connected /\ db'[c].timeoutSet]_vars

\* C14 witness: a call has connected, has set its statement timeout and has
\* sent its query.
C14_Witness ==
  \E c \in Calls :
    /\ db[c].fn = "query" /\ db[c].connected /\ db[c].timeoutSet
    /\ db[c].issued = <<applyTimeout(config.profile.maxExecutionMs), <<"query">>>>

(***************************************************************************)
(* Claims about validateQuerySafety (specification SpecQuery).             *)
(***************************************************************************)
\* the reference scanner: a backslash escapes the character after it, a quote
\* that is not escaped opens or closes a literal of its kind ("delimiter"), and
\* every other character lies inside or outside a literal
RECURSIVE Reference(_, _, _, _, _)
Reference(str, i, inSingle, inDouble, escaped) ==
  IF i > Len(str) THEN <<>>
  ELSE LET char == str[i]
           here == IF inSingle \/ inDouble THEN "inside" ELSE "outside"
       IN
       IF escaped THEN <<here>> \o Reference(str, i + 1, inSingle, inDouble, FALSE)
       ELSE IF char = "\\" THEN <<here>> \o Reference(str, i + 1, inSingle, inDouble, TRUE)
       ELSE IF char = "'" /\ ~inDouble
         THEN <<"delimiter">> \o Reference(str, i + 1, ~inSingle, inDouble, FALSE)
       ELSE IF char = "\"" /\ ~inSingle
         THEN <<"delimiter">> \o Reference(str, i + 1, inSingle, ~inDouble, FALSE)
       ELSE <<here>> \o Reference(str, i + 1, inSingle, inDouble, FALSE)

ReferenceClasses(str) == Reference(str, 1, FALSE, FALSE, FALSE)

\* positions of the text that lie outside the literals of the reference scanner
\* and hold the character
OutsideAt(str, char) ==
  {i \in 1..Len(str) : str[i] = char /\ ReferenceClasses(str)[i] = "outside"}

\* the text has the two characters next to each other outside literals
MarkerOutside(str, first, second) ==
  \E i \in OutsideAt(str, first) : (i + 1) \in OutsideAt(str, second)

\* the reasons for which a query is to be rejected
MustReject(str) ==
  \/ trim(str) = <<>>
  \/ MarkerOutside(trim(str), "-", "-")
  \/ MarkerOutside(trim(str), "/", "*")
  \/ Cardinality(OutsideAt(trim(str), ";")) > 1
  \/ \E i \in OutsideAt(trim(str), ";") :
        trim(SubSeq(trim(str), i + 1, Len(trim(str)))) # <<>>

\* C18: a query text that is empty or blank, or that has outside its string
\* literals a `--`, a `/*`, a semicolon followed by anything but white space
\* or more than one semicolon, is rejected; a text with none of these that
\* ends in one semicolon followed only by white space is accepted.
C18_RejectsUnsafeQueries ==
  validated.verdict # "none" =>
    /\ MustReject(validated.query) => validated.verdict # "ok"
    /\ (~MustReject(validated.query) /\ OutsideAt(trim(validated.query), ";") # {})
          => validated.verdict = "ok"

\* C19: validateQuerySafety puts every character it scans in the class the
\* reference scanner puts it in (delimiter of a literal, inside a literal,
\* outside), and it accepts a text exactly when the text has no comment marker
\* and no statement separator outside the literals of the reference scanner.
C19_AgreesWithReference ==
  validated.verdict # "none" =>
    /\ \A i \in 1..Len(validated.classes) :
          validated.classes[i] = ReferenceClasses(trim(validated.query))[i]
    /\ (validated.verdict = "ok") <=> ~MustReject(validated.query)

(***************************************************************************)
(* Claims about the limits, the row cap and the TruncatingBuffer           *)
(* (specification SpecLimits).                                             *)
(***************************************************************************)
DbReturned == limits.executor = "db" /\ limits.fn = "returned"

\* C15: when the server sends n rows and the row limit L of the call is not
\* negative, the call returns the first min(n, L) rows in the order of the
\* server, and truncated is set exactly when n > L.
C15_RowCap ==
  (DbReturned /\ limits.rowLimit >= 0) =>
    LET n == Len(limits.server.rows)
        L == limits.rowLimit
    IN /\ limits.result.rows = [i \in 1..Min(n, L) |-> limits.server.rows[i]]
       /\ limits.result.truncated <=> n > L

\* C15 witness: a call overrode a row ceiling of 2 by 1, the server sent three
\* rows, the call returned the first one and set truncated.
C15_Witness ==
  /\ DbReturned
  /\ limits.options.rowLimit = Given(1) /\ limits.profile.maxRows = 2
  /\ Len(limits.server.rows) = 3
  /\ limits.result.rows = <<1>> /\ limits.result.truncated

\* C16: the rowCount a call returns is the total number of rows of the server's
\* result, also when rows were cut off and when the server gave no row count
\* (for a row limit that is not negative).
C16_RowCountIsServerTotal ==
  (DbReturned /\ limits.rowLimit >= 0) =>
    limits.result.rowCount = Len(limits.server.rows)

\* C17: whatever integer a call passes as an override, the timer is set with
\* at most maxExecutionMs, the statement timeout is at most maxExecutionMs, a
\* buffer is created with at most maxOutputBytes and never holds more than it
\* was created with, and at most maxRows rows are returned.
C17_OverridesOnlyTighten ==
  /\ (limits.executor = "ssh" /\ limits.fn = "running") =>
        /\ limits.timeoutLimit <= limits.policy.maxExecutionMs
        /\ limits.outputLimit <= limits.policy.maxOutputBytes
  /\ limits.executor = "buffer" =>
        buffer.byteLength <= (IF buffer.limit < 0 THEN 0 ELSE buffer.limit)
  /\ (limits.executor = "db" /\ limits.fn # "called") =>
        limits.timeoutMs <= limits.profile.maxExecutionMs
  /\ DbReturned => Len(limits.result.rows) <= limits.profile.maxRows

\* C20: a TruncatingBuffer created with a ceiling C > 0 never holds more than C
\* bytes, its content is the first min(T, C) bytes of the T bytes pushed so
\* far, truncated is set whenever T > C, and once truncated is set it stays set
\* and the content stays as it is.
C20_TruncatingBuffer ==
  /\ []((limits.executor = "buffer" /\ buffer.limit > 0) =>
          LET all == concat(pushed)
              T == Len(all)
              C == buffer.limit
          IN /\ buffer.byteLength <= C
             /\ Len(toString(buffer)) = buffer.byteLength
             /\ toString(buffer) = [i \in 1..Min(T, C) |-> all[i]]
             /\ T > C => buffer.truncated)
  /\ [][(limits.executor = "buffer" /\ buffer.limit > 0 /\ buffer.truncated) =>
          /\ buffer'.truncated
          /\ toString(buffer') = toString(buffer)]_vars

\* C20 witness: a buffer with ceiling 2 was pushed one byte, then two bytes of
\* which it kept the first, then one more byte which it dropped.
C20_Witness ==
  /\ limits.executor = "buffer" /\ buffer.limit = 2
  /\ pushed = << <<"x">>, <<"y", "x">>, <<"y">> >>
  /\ toString(buffer) = <<"x", "y">> /\ buffer.truncated

(***************************************************************************)
(* Claims about runTrainingJob (specification SpecTrain).                  *)
(***************************************************************************)
\* the call has returned its report
JobReturned == job.fn = "returned"

DryRunEntry == "Dry run: command rendered but not executed"

\* C21: a dry-run call never invokes the executor; the report it returns has
\* one task per subclass, in the order of the input; and when the signal had
\* not fired when the call was made, every task is succeeded, was never
\* running, and has the dry-run entry as its first log entry.
C21_DryRunInvokesNothing ==
  job.dryRun =>
    /\ job.invoked = <<>>
    /\ JobReturned =>
         /\ Len(job.tasks) = Len(job.subclasses)
         /\ \A i \in DOMAIN job.tasks : job.tasks[i].subclass = job.subclasses[i]
         /\ job.signal = "live" =>
              \A i \in DOMAIN job.tasks :
                /\ job.tasks[i].status = "succeeded"
                /\ ~job.tasks[i].ran
                /\ job.tasks[i].logs # <<>>
                /\ job.tasks[i].logs[1] = DryRunEntry

\* C21 witness: a dry run of three subclasses, two of them equal, has returned
\* with a live signal.
C21_Witness ==
  /\ JobReturned
  /\ job.dryRun
  /\ job.signal = "live"
  /\ job.subclasses = <<"cats", "dogs", "cats">>
  /\ job.status = "succeeded"

\* the executor was called for task i and its call failed with an error other
\* than the cancellation error
ExecutorFailed(i) == job.tasks[i].outcome.name = "Error"

Terminal == {"succeeded", "failed", "cancelled"}

\* C23: the executor is invoked for the tasks in input order and for each at
\* most once; at most one task is running at any time; and when the executor
\* has been invoked for a task, every task before it is succeeded, failed or
\* cancelled and every task after the last invoked one is not started.
C23_OneTaskAtATime ==
  /\ \A a, b \in DOMAIN job.invoked : a < b => job.invoked[a] < job.invoked[b]
  /\ Cardinality({i \in DOMAIN job.tasks : job.tasks[i].status = "running"}) <= 1
  /\ \A a \in DOMAIN job.invoked :
       \A i \in DOMAIN job.tasks : i < job.invoked[a] => job.tasks[i].status \in Terminal
  /\ job.fn = "awaiting" =>
       /\ job.invoked # <<>>
       /\ job.invoked[Len(job.invoked)] = job.index
       /\ job.tasks[job.index].status = "running"
       /\ \A i \in DOMAIN job.tasks : i > job.index => job.tasks[i].status = "pending"

\* C23 witness: the executor is running the third task after the first
\* succeeded and the second failed.
C23_Witness ==
  /\ job.fn = "awaiting"
  /\ job.invoked = <<1, 2, 3>>
  /\ job.tasks[1].status = "succeeded"
  /\ job.tasks[2].status = "failed"
  /\ job.tasks[3].status = "running"

\* the status of task i before the step (a task that is not mapped yet is pending)
StatusBefore(i) == IF i \in DOMAIN job.tasks THEN job.tasks[i].status ELSE "pending"

\* C24: in every step of runTrainingJob that moves on to a next task while the
\* signal has fired, that task and every task after it become cancelled without
\* ever being running, and the executor is invoked for none of them; the same
\* in dry-run mode.
C24_CancelledBeforeStart ==
  [][(job'.signal = "aborted" /\ job'.index > job.index) =>
       /\ job'.index = Len(job'.tasks) + 1
       /\ job'.invoked = job.invoked
       /\ \A i \in DOMAIN job'.tasks :
            StatusBefore(i) = "pending" =>
              /\ job'.tasks[i].status = "cancelled"
              /\ ~job'.tasks[i].ran
              /\ job'.tasks[i].outcome = NoOutcome]_vars

\* C24 witness: the signal fired while the first task was running, its call
\* still resolved, and the two tasks after it were cancelled before start.
C24_Witness ==
  /\ JobReturned
  /\ job.signal = "aborted"
  /\ ~job.dryRun
  /\ job.invoked = <<1>>
  /\ job.tasks[1].status = "succeeded"
  /\ Len(job.tasks) = 3
  /\ job.tasks[2].logs = <<"Training task cancelled before start">>
  /\ job.tasks[3].status = "cancelled"
  /\ job.status = "cancelled"

\* the statuses the tasks of the job have
FinalStatuses == {job.tasks[i].status : i \in DOMAIN job.tasks}

\* C25: the status of the job is failed when a task is failed, otherwise
\* cancelled when a task is cancelled, otherwise succeeded, whatever the final
\* statuses of the tasks are.
C25_JobStatus ==
  job.status # "none" =>
    /\ FinalStatuses \subseteq Terminal
    /\ job.status = IF "failed" \in FinalStatuses THEN "failed"
                    ELSE IF "cancelled" \in FinalStatuses THEN "cancelled"
                    ELSE "succeeded"

\* C25 witness: a job with a succeeded, a failed and a cancelled task returned
\* with status failed.
C25_Witness ==
  /\ JobReturned
  /\ Len(job.tasks) = 3
  /\ job.tasks[1].status = "succeeded"
  /\ job.tasks[2].status = "failed"
  /\ job.tasks[3].status = "cancelled"
  /\ job.status = "failed"

\* C26: a task whose executor call failed with the cancellation error is
\* cancelled; a task whose call failed with any other error (a timeout, a
\* missing profile, a policy violation, a transport failure) is failed.
C26_ErrorKindDecidesStatus ==
  \A i \in DOMAIN job.tasks :
    /\ job.tasks[i].outcome \in CancelledErrors => job.tasks[i].status = "cancelled"
    /\ job.tasks[i].outcome \in OtherErrors => job.tasks[i].status = "failed"

\* C26 witness: the call of the first task was refused by the policy and the
\* call of the second was cancelled while it waited for a slot.
C26_Witness ==
  /\ JobReturned
  /\ Len(job.tasks) >= 2
  /\ job.tasks[1].outcome = Error("Command is not permitted by policy")
  /\ job.tasks[1].status = "failed"
  /\ job.tasks[2].outcome = createAbortError("Operation cancelled before starting")
  /\ job.tasks[2].status = "cancelled"

(***************************************************************************)
(* Claims about the progress events of the executors (SpecExec).           *)
(***************************************************************************)
\* C27: within one call of executeSshCommand or executeDatabaseQuery the
\* progress values handed to options.onProgress never decrease, whatever the
\* order of the transport events, the timeout and the cancellation.
C27_ProgressNonDecreasing ==
  [][\A c \in Calls :
       /\ ssh'[c].fn \notin {"idle", "done"} => ssh'[c].progress >= ssh[c].progress
       /\ db'[c].fn \notin {"idle", "done"} => db'[c].progress >= db[c].progress]_vars

(***************************************************************************)
(* Claims about failed progress deliveries (specification SpecTrain).      *)
(***************************************************************************)
\* C28: a failed delivery to the progress sink changes nothing of the call:
\* runTrainingJob still returns its report (it throws only for a missing
\* template) and every task whose executor call resolved is succeeded.
C28_DeliveryFailureIsHarmless ==
  /\ job.fn = "threw" => job.error = "No command template supplied for training job"
  /\ \A i \in DOMAIN job.tasks :
       job.tasks[i].outcome = SshResult => job.tasks[i].status = "succeeded"

(***************************************************************************)
(* Claims about the ConcurrencyLimiter under a policy that changes         *)
(* (specification SpecPolicy).                                             *)
(***************************************************************************)
\* caller r gets its slot in this step
GrantedNow(r) == rStatus[r] # "granted" /\ rStatus'[r] = "granted"

\* C29: a caller is never granted a slot of a key, at once or from the queue,
\* while a caller that arrived before it stays queued for that key, also when
\* the callers pass different limits.
C29_NoOvertaking ==
  [][\A r \in Reqs :
       GrantedNow(r) =>
         \A v \in Reqs \ {r} :
           (rStatus[v] = "queued" /\ rStatus'[v] = "queued" /\ rKey[v] = rKey'[r])
             => rStatus[r] = "queued" /\ ArrivedBefore(r, v)]_vars

\* C30: a caller is granted a slot, at once or by the hand-over of release,
\* only when the other holders of the key are fewer than the limit the last
\* acquire of the key supplied.
C30_GrantBelowLimit ==
  [][\A r \in Reqs :
       GrantedNow(r) =>
         Cardinality({h \in Reqs \ {r} : /\ rStatus'[h] = "granted"
                                           /\ ~rReleased'[h]
                                           /\ rKey'[h] = rKey'[r]})
           < states'[rKey'[r]].limit]_vars

(***************************************************************************)
(* Further claims about the ConcurrencyLimiter (specification Spec).       *)
(***************************************************************************)
\* C31: after every operation each key that has a state record has at least
\* one holder, and the record counts exactly its holders; a key with no holder
\* and no waiter has no record.
C31_NoIdleRecord ==
  /\ \A k \in DOMAIN states :
       /\ Holders(k) # {}
       /\ states[k].active = Cardinality(Holders(k))
  /\ \A k \in Keys : (Holders(k) = {} /\ Waiting(k) = {}) => ~HasState(states, k)

\* C31 witness: the record of key a was created and discarded twice while key b
\* has a holder and a waiter.
C31_Witness ==
  /\ kCreated["a"] = 2
  /\ ~HasState(states, "a")
  /\ HasState(states, "b")
  /\ Waiting("b") # {}

\* C32: when every holder releases its slot, a caller that is queued is
\* eventually granted a slot or failed with the abort error.
C32_NoWaiterStarves ==
  \A r \in Reqs : (rStatus[r] = "queued") ~> (rStatus[r] \in {"granted", "AbortError"})

\* C32 witness: a caller that waited behind another waiter was granted a slot by
\* the release of a holder that had itself been queued.
C32_Witness ==
  \E h, w \in Reqs :
    /\ rWasQueued[h] /\ rStatus[h] = "granted" /\ rReleased[h]
    /\ rWasQueued[w] /\ rStatus[w] = "granted" /\ ~rReleased[w]
    /\ ArrivedBefore(h, w)

(***************************************************************************)
(* Further claims about the executors (specification SpecExec).            *)
(***************************************************************************)
\* C33: a call of executeSshCommand that opened a connection calls
\* sshClient.end() exactly once, whatever way it ends: never twice, and once by
\* the time it returns.
C33_TeardownOnce ==
  /\ [](\A c \in Calls : ssh[c].ends <= 1)
  /\ [][\A c \in Calls :
          (ssh[c].fn = "awaiting" /\ ssh'[c].fn = "done" /\ ssh[c].connects >= 1)
            => ssh[c].ends = 1]_vars

(***************************************************************************)
(* Further claims about runTrainingJob (specification SpecTrain).          *)
(***************************************************************************)
\* the moves of a task's status in a live job, in a dry run, and when the
\* signal has fired before the task starts
Moves ==
  {<<"pending", "running">>, <<"running", "succeeded">>, <<"running", "failed">>,
   <<"running", "cancelled">>, <<"pending", "succeeded">>, <<"pending", "cancelled">>}

C35_DbCallSettles ==
  \A c \in Calls :
    (db[c].fn \in {"granted", "connecting", "applyTimeout", "query", "ending"})
      ~> (db[c].fn = "done")

\* C36: once the signal of a call of executeDatabaseQuery has fired, the call
\* issues no further statement on its connection: neither the SET statement
\* nor the query.
C36_NoStatementAfterCancel ==
  [][\A c \in Calls :
       (db[c].sig = "aborted" /\ db'[c].fn # "done") => db'[c].issued = db[c].issued]_vars

\* calls whose connection was opened and whose teardown was not started
OpenSsh == {c \in Calls : ssh[c].fn = "awaiting" /\ ssh[c].connects >= 1 /\ ssh[c].ends = 0}

OpenDb == {c \in Calls : db[c].fn \in {"connecting", "applyTimeout", "query"}}

\* C37: the connections of a profile that were opened and whose teardown was
\* not started are never more than the profile's maxConcurrent; a call has such
\* a connection only while it holds a slot, and it has started the teardown
\* when it releases the slot.
C37_ConnectionsWithinLimit ==
  /\ [](/\ Cardinality(OpenSsh) <= config.profile.maxConcurrent
        /\ Cardinality(OpenDb) <= config.profile.maxConcurrent
        /\ \A c \in OpenSsh : ssh[c].hadSlot /\ ~ssh[c].released
        /\ \A c \in OpenDb : db[c].hadSlot /\ ~db[c].released)
  /\ [][\A c \in Calls :
          /\ (~ssh[c].released /\ ssh'[c].released /\ ssh[c].connects >= 1)
               => ssh[c].ends >= 1
          /\ (~db[c].released /\ db'[c].released /\ db[c].connects >= 1)
               => db[c].ends >= 1]_vars

\* C37 witness: the first call has connected, ended its connection and
\* returned, and the second call holds the slot and has its stream open.
C37_Witness ==
  /\ ssh[1].fn = "done" /\ ssh[1].connects = 1 /\ ssh[1].released
  /\ ssh[2].fn = "awaiting" /\ ssh[2].conn = "stream" /\ ssh[2].ends = 0
  /\ ActiveOf(sshConcurrency, config.name) = 1

\* C38: once a task is cancelled the executor is invoked for no later task,
\* and in every report that runTrainingJob returns the cancelled tasks are the
\* last ones: every task after a cancelled task is cancelled.
C38_CancelledSuffix ==
  \A i, k \in DOMAIN job.tasks :
    (i < k /\ job.tasks[i].status = "cancelled") =>
      /\ k \notin SeqRange(job.invoked)
      /\ job.tasks[k].outcome = NoOutcome
      /\ JobReturned => job.tasks[k].status = "cancelled"

\* C38 witness: a job of three tasks whose first task was cancelled in flight
\* returned with the two others cancelled before start.
C38_Witness ==
  /\ JobReturned
  /\ Len(job.tasks) = 3
  /\ job.tasks[1].outcome = createAbortError("SSH command cancelled")
  /\ job.tasks[1].status = "cancelled"
  /\ job.tasks[2].status = "cancelled" /\ job.tasks[3].status = "cancelled"
  /\ job.invoked = <<1>>

\* C39: the timer of a call of executeSshCommand is armed only after the call
\* was granted its slot and has started to connect; a call that is queued for
\* a slot has no timer, and it leaves the queue only by being granted the slot
\* or by failing with the abort error when its signal fires.
C39_NoTimeoutWhileQueued ==
  /\ [](\A c \in Calls :
          /\ ssh[c].fn \in {"queued", "granted"} => ssh[c].timer = "unset"
          /\ ssh[c].timer # "unset" => ssh[c].hadSlot /\ ssh[c].connects >= 1)
  /\ [][\A c \in Calls :
          (ssh[c].fn = "queued" /\ ssh'[c].fn # "queued") =>
            \/ ssh'[c].fn = "granted" /\ ssh'[c].hadSlot
            \/ /\ ssh'[c].fn = "done"
               /\ ssh'[c].result = "AbortError"
               /\ ssh[c].sig = "live"
               /\ ~ssh'[c].hadSlot]_vars

\* C39 witness: the timer of the holder has fired while another call is still
\* queued for the slot.
C39_Witness ==
  /\ ssh[1].fn = "awaiting" /\ ssh[1].timer = "fired" /\ ssh[1].outcome = "Timeout"
  /\ ssh[2].fn = "queued" /\ ssh[2].timer = "unset"

====
